---- MODULE Spec2Model ----
(***************************************************************************)
(* Model of the /api/ask handler of the portfolio assistant                *)
(* (src/unnamed/part_002): the abuse guard (rate window, strikes,          *)
(* lockout), request validation, intent classification, content            *)
(* moderation, the retrieval pipeline over the analytical store, project   *)
(* ranking and the assembly of the response.                               *)
(*                                                                         *)
(* Questions, answers and skill names are real strings; the regular        *)
(* expressions of the source are translated to literal alternatives that   *)
(* are searched in the string with the same word-boundary rules.           *)
(***************************************************************************)
EXTENDS Integers, Sequences, FiniteSets, TLC

VARIABLES
    now,        \* Date.now(), in milliseconds
    ticks,      \* how many times the clock was advanced
    rateMap,    \* client ip -> NoEntry or [count, resetAt]
    strikeMap,  \* client ip -> NoEntry or [strikes, lastStrikeAt, lockedUntil]
    win,        \* per client: the rate window counted from the requests alone
    env,        \* process.env: [apiKey, hasDb]
    data,       \* index of the data files and of the analytical store in use
    pc,         \* position of the request in flight: "idle", "page", "pers", "db", "gen"
    cur,        \* the request in flight and what the handler computed so far
    resp,       \* the last response sent (NoResp before the first one)
    twin,       \* what the same request, re-evaluated from the same state, returns
    rank,       \* input and output of the last rankProjects call checked alone
    hist,       \* per client: when its requests of the last ten minutes passed the limiter
    cls,        \* input and output of the last classifyIntent call checked alone
    race,       \* the generator call of the request in flight: its timers, its client
    parked      \* the requests whose handler waits at an await while another one runs

vars ==
    <<now, ticks, rateMap, strikeMap, win, env, data, pc, cur, resp, twin, rank,
      hist, cls, race, parked>>

----------------------------------------------------------------------------
(* Strings: the JavaScript string operations the handler uses.             *)

Max(a, b) == IF a >= b THEN a ELSE b

Min(a, b) == IF a <= b THEN a ELSE b

\* Math.ceil(n / d) for n >= 0, d > 0
CeilDiv(n, d) == (n + d - 1) \div d

LowerOfUpper ==
    [A |-> "a", B |-> "b", C |-> "c", D |-> "d", E |-> "e", F |-> "f", G |-> "g",
     H |-> "h", I |-> "i", J |-> "j", K |-> "k", L |-> "l", M |-> "m", N |-> "n",
     O |-> "o", P |-> "p", Q |-> "q", R |-> "r", S |-> "s", T |-> "t", U |-> "u",
     V |-> "v", W |-> "w", X |-> "x", Y |-> "y", Z |-> "z"]

CharAt(s, i) == SubSeq(s, i, i)

RECURSIVE toLowerCase(_)
toLowerCase(s) ==
    IF Len(s) = 0 THEN ""
    ELSE IF Len(s) = 1 THEN (IF s \in DOMAIN LowerOfUpper THEN LowerOfUpper[s] ELSE s)
    ELSE LET half == Len(s) \div 2
         IN  toLowerCase(SubSeq(s, 1, half)) \o toLowerCase(SubSeq(s, half + 1, Len(s)))

\* s.includes(t)
Includes(s, t) ==
    \E i \in 1..(Len(s) - Len(t) + 1) : SubSeq(s, i, i + Len(t) - 1) = t

IsSpace(c) == c \in {" "}

TrimLeft(s) ==
    IF \A i \in 1..Len(s) : IsSpace(CharAt(s, i)) THEN ""
    ELSE SubSeq(s, CHOOSE i \in 1..Len(s) :
                       ~IsSpace(CharAt(s, i)) /\ \A j \in 1..(i - 1) : IsSpace(CharAt(s, j)),
                Len(s))

TrimRight(s) ==
    IF \A i \in 1..Len(s) : IsSpace(CharAt(s, i)) THEN ""
    ELSE SubSeq(s, 1, CHOOSE i \in 1..Len(s) :
                          ~IsSpace(CharAt(s, i))
                              /\ \A j \in (i + 1)..Len(s) : IsSpace(CharAt(s, j)))

\* s.trim()
Trim(s) == TrimRight(TrimLeft(s))

RECURSIVE Repeat(_, _)
Repeat(s, n) == IF n = 0 THEN "" ELSE s \o Repeat(s, n - 1)

WordChars ==
    {"a", "b", "c", "d", "e", "f", "g", "h", "i", "j", "k", "l", "m", "n", "o",
     "p", "q", "r", "s", "t", "u", "v", "w", "x", "y", "z", "_",
     "0", "1", "2", "3", "4", "5", "6", "7", "8", "9"} \cup DOMAIN LowerOfUpper

\* \w at position k of s (FALSE outside the string)
IsWordAt(s, k) == k >= 1 /\ k <= Len(s) /\ CharAt(s, k) \in WordChars

\* \b between the characters k-1 and k of s
Boundary(s, k) == IsWordAt(s, k - 1) # IsWordAt(s, k)

(* A regular expression of the source is a sequence of groups separated by *)
(* \s+, a group is a set of alternatives, an alternative is a sequence of  *)
(* literals separated by ".*".  AltEnds is the set of positions just after *)
(* a match of the alternative that starts exactly at position i.           *)
RECURSIVE AltEnds(_, _, _)
AltEnds(s, i, alt) ==
    LET lit == Head(alt)
        n == Len(lit)
    IN  IF i + n - 1 > Len(s) \/ SubSeq(s, i, i + n - 1) # lit THEN {}
        ELSE IF Len(alt) = 1 THEN {i + n}
        ELSE UNION {AltEnds(s, j, Tail(alt)) : j \in (i + n)..(Len(s) + 1)}

GroupEnds(s, i, group) == UNION {AltEnds(s, i, alt) : alt \in group}

\* the positions after a run of one or more white-space characters from e
SpaceEnds(s, e) ==
    {j \in (e + 1)..(Len(s) + 1) : \A k \in e..(j - 1) : IsSpace(CharAt(s, k))}

RECURSIVE SeqEnds(_, _, _)
SeqEnds(s, i, groups) ==
    IF Len(groups) = 1 THEN GroupEnds(s, i, groups[1])
    ELSE UNION {UNION {SeqEnds(s, j, Tail(groups)) : j \in SpaceEnds(s, e)}
                    : e \in GroupEnds(s, i, groups[1])}

\* /\b(g1)\s+(g2)...\b/.test(s)
TestWords(s, groups) ==
    \E i \in 1..Len(s) :
        /\ Boundary(s, i)
        /\ \E e \in SeqEnds(s, i, groups) : Boundary(s, e)

\* a set of plain literals as a group
Lits(S) == {<<w>> : w \in S}

\* /\b(w1|w2|...)\b/.test(s)
TestWord(s, S) == TestWords(s, <<Lits(S)>>)

----------------------------------------------------------------------------
(* Constants of the guard.                                                 *)

RATE_WINDOW_MS == 10 * 60 * 1000

RATE_MAX == 20

LOCKOUT_DURATION_MS == 15 * 60 * 1000

MAX_QUESTION_CHARS == 800

NoEntry == [none |-> TRUE]


----------------------------------------------------------------------------
(* The abuse guard: rateMap and strikeMap, keyed by the client ip.         *)

\* "a, b".split(',')[0]
RECURSIVE BeforeComma(_)
BeforeComma(s) ==
    IF Len(s) = 0 \/ CharAt(s, 1) = "," THEN ""
    ELSE CharAt(s, 1) \o BeforeComma(SubSeq(s, 2, Len(s)))

\* headers: [xfwd, realIp, remote], "" when the header is absent
getClientIp(headers) ==
    IF Len(headers.xfwd) > 0 THEN Trim(BeforeComma(headers.xfwd))
    ELSE IF Len(headers.realIp) > 0 THEN headers.realIp
    ELSE IF Len(headers.remote) > 0 THEN headers.remote
    ELSE "unknown"

\* a Retry-After of the whole window, whatever is left of it
RetryAfterSecFullWindow(entry, t) == RATE_WINDOW_MS \div 1000

RetryAfterSec(entry, t) == Max(1, CeilDiv(entry.resetAt - t, 1000))

\* the limit taken one request early
RateExceededAtMax(count) == count >= RATE_MAX

\* a limit of one request in a window
RateExceededAtFirst(count) == count > 1

\* a limit of twice as many
RateExceededAtDouble(count) == count > 2 * RATE_MAX

RateExceeded(count) == count > RATE_MAX

WindowOver(entry, t) == t > entry.resetAt

\* a limiter that keeps one entry for all the clients
rateLimitShared(rm, ip, t) ==
    LET entry == rm[ip]
        all(e) == [c \in DOMAIN rm |-> e]
    IN  IF entry = NoEntry \/ WindowOver(entry, t)
        THEN [map |-> all([count |-> 1, resetAt |-> t + RATE_WINDOW_MS]),
              ok |-> TRUE, retryAfterSec |-> 0]
        ELSE LET e2 == [entry EXCEPT !.count = @ + 1]
             IN  IF RateExceeded(e2.count)
                 THEN [map |-> all(e2), ok |-> FALSE, retryAfterSec |-> RetryAfterSec(e2, t)]
                 ELSE [map |-> all(e2), ok |-> TRUE, retryAfterSec |-> 0]

\* rateLimit(req): the new map, ok, and retryAfterSec (0 when ok)
rateLimit(rm, ip, t) ==
    LET entry == rm[ip]
    IN  IF entry = NoEntry \/ WindowOver(entry, t)
        THEN [map |-> [rm EXCEPT ![ip] = [count |-> 1, resetAt |-> t + RATE_WINDOW_MS]],
              ok |-> TRUE, retryAfterSec |-> 0]
        ELSE LET e2 == [entry EXCEPT !.count = @ + 1]
             IN  IF RateExceeded(e2.count)
                 THEN [map |-> [rm EXCEPT ![ip] = e2], ok |-> FALSE,
                       retryAfterSec |-> RetryAfterSec(e2, t)]
                 ELSE [map |-> [rm EXCEPT ![ip] = e2], ok |-> TRUE, retryAfterSec |-> 0]

\* a lockout that still holds at the instant it runs out
StillLockedAtExpiry(entry, t) == entry.lockedUntil # 0 /\ t <= entry.lockedUntil

\* a lockout that is over before it starts
StillLockedNever(entry, t) ==
    entry.lockedUntil # 0 /\ t + LOCKOUT_DURATION_MS < entry.lockedUntil

StillLocked(entry, t) == entry.lockedUntil # 0 /\ t < entry.lockedUntil

\* checkStrikes(req): lockedUntil = 0 stands for "undefined"
checkStrikes(sm, ip, t) ==
    LET entry == sm[ip]
    IN  IF entry = NoEntry THEN [map |-> sm, strikes |-> 0, lockedUntil |-> 0]
        ELSE IF StillLocked(entry, t)
        THEN [map |-> sm, strikes |-> entry.strikes, lockedUntil |-> entry.lockedUntil]
        ELSE IF entry.lockedUntil # 0 /\ t >= entry.lockedUntil
        THEN [map |-> [sm EXCEPT ![ip] = [strikes |-> 0, lastStrikeAt |-> 0, lockedUntil |-> 0]],
              strikes |-> 0, lockedUntil |-> 0]
        ELSE [map |-> sm, strikes |-> entry.strikes, lockedUntil |-> 0]

StrikesToLock == 3

\* a strike that counts double
addStrikeTwice(sm, ip, t) ==
    LET entry == IF sm[ip] = NoEntry
                 THEN [strikes |-> 0, lastStrikeAt |-> 0, lockedUntil |-> 0]
                 ELSE sm[ip]
        e2 == [entry EXCEPT !.strikes = @ + 2, !.lastStrikeAt = t]
        e3 == IF e2.strikes >= StrikesToLock
              THEN [e2 EXCEPT !.lockedUntil = t + LOCKOUT_DURATION_MS]
              ELSE e2
    IN  [map |-> [sm EXCEPT ![ip] = e3], strikes |-> e3.strikes, lockedUntil |-> e3.lockedUntil]

\* addStrike(req)
\* strikes older than the rate window are forgotten
addStrikeDecaying(sm, ip, t) ==
    LET entry == IF sm[ip] = NoEntry \/ t > sm[ip].lastStrikeAt + RATE_WINDOW_MS
                 THEN [strikes |-> 0, lastStrikeAt |-> 0, lockedUntil |-> 0]
                 ELSE sm[ip]
        e2 == [entry EXCEPT !.strikes = @ + 1, !.lastStrikeAt = t]
        e3 == IF e2.strikes >= StrikesToLock
              THEN [e2 EXCEPT !.lockedUntil = t + LOCKOUT_DURATION_MS]
              ELSE e2
    IN  [map |-> [sm EXCEPT ![ip] = e3], strikes |-> e3.strikes,
         lockedUntil |-> e3.lockedUntil]

addStrike(sm, ip, t) ==
    LET entry == IF sm[ip] = NoEntry
                 THEN [strikes |-> 0, lastStrikeAt |-> 0, lockedUntil |-> 0]
                 ELSE sm[ip]
        e2 == [entry EXCEPT !.strikes = @ + 1, !.lastStrikeAt = t]
        e3 == IF e2.strikes >= StrikesToLock
              THEN [e2 EXCEPT !.lockedUntil = t + LOCKOUT_DURATION_MS]
              ELSE e2
    IN  [map |-> [sm EXCEPT ![ip] = e3], strikes |-> e3.strikes, lockedUntil |-> e3.lockedUntil]

----------------------------------------------------------------------------
(* Intent classification.                                                  *)

PageContextExact ==
    {"what page am i on", "where am i", "what is this page", "what project is this",
     "tell me about this page"}

PageContextWords ==
    {"what page", "where am i", "what is this", "tell me about this page",
     "what project is this"}

IsPageContext(lower, hasPageContext) ==
    \/ lower \in PageContextExact
    \/ TestWord(lower, PageContextWords)
    \/ (hasPageContext /\ (Includes(lower, "page") \/ Includes(lower, "where am i")
                              \/ Includes(lower, "what is this")))

PersonalityPatterns ==
    << <<Lits({"does ryan like", "does ryan enjoy", "does ryan love"})
           \cup {<<"ryan", "favorite">>, <<"ryan", "favourite">>, <<"ryan", "hobby">>,
                 <<"ryan", "hobbies">>, <<"ryan", "interest">>, <<"ryan", "interests">>}>>,
       <<Lits({"what does ryan like"})
           \cup {<<"what", "ryan", "favorite">>, <<"what", "ryan", "enjoy">>,
                 <<"what", "ryan", "love">>}>>,
       <<Lits({"does he like", "does he enjoy", "does he love", "what does he like"})
           \cup {<<"what", "he", "favorite">>}>>,
       <<Lits({"favorite movie", "favourite movie", "favorite movies", "favourite movies"})
           \cup {<<"what", "favorite">>, <<"what", "favourite">>}>>,
       <<Lits({"snowboarding", "skiing", "food", "movies", "movie", "drinks", "music",
               "sports", "travel", "lotr"})
           \cup {<<"lord", "ring">>, <<"lord", "rings">>}>> >>

AnyPattern(lower, patterns) ==
    \E k \in 1..Len(patterns) : TestWords(lower, patterns[k])

IsPersonality(lower) == AnyPattern(lower, PersonalityPatterns)

\* no phrase is a self-identification
IsMadisonNever(lower) == FALSE

IsMadison(lower) ==
    \/ Includes(lower, "madison larocca")
    \/ Includes(lower, "madison avery")
    \/ Includes(lower, "this is madison")

AckWordsExact ==
    {"ok", "okay", "cool", "thanks", "thank you", "got it", "sounds good", "nice",
     "alright", "sure", "yep", "yeah", "yes", "no", "nope"}

AckWordsPunct ==
    {"ok", "okay", "cool", "thanks", "thank you", "got it", "sounds good", "nice",
     "alright", "sure", "yep", "yeah"}

\* s matches \s*[.!?]*$ from position i on
RECURSIVE SpacesThenPunct(_, _, _)
SpacesThenPunct(s, i, inPunct) ==
    IF i > Len(s) THEN TRUE
    ELSE IF CharAt(s, i) \in {".", "!", "?"} THEN SpacesThenPunct(s, i + 1, TRUE)
    ELSE IF IsSpace(CharAt(s, i)) /\ ~inPunct THEN SpacesThenPunct(s, i + 1, FALSE)
    ELSE FALSE

\* a classifier that knows no acknowledgement
IsAcknowledgementNever(lower) == FALSE

IsAcknowledgement(lower) ==
    \/ lower \in AckWordsExact
    \/ \E w \in AckWordsPunct :
          /\ Len(lower) >= Len(w)
          /\ SubSeq(lower, 1, Len(w)) = w
          /\ SpacesThenPunct(lower, Len(w) + 1, FALSE)

FastPathPatterns ==
    << <<Lits({"does ryan", "is ryan", "can ryan", "has ryan"}),
         Lits({"test", "validate", "good at", "expert", "senior", "use", "know", "have"})
           \cup {<<"use", "best", "practice">>, <<"follow", "practice">>}>>,
       <<Lits({"is ryan", "does ryan", "can ryan"}),
         Lits({"senior", "expert", "good", "skilled", "experienced"})>>,
       <<Lits({"does ryan", "is ryan"}),
         Lits({"test", "validate", "quality", "governance", "best practice"})>> >>

FAST_PATH_MAX_CHARS == 100

IsFastPath(lower, question) ==
    AnyPattern(lower, FastPathPatterns) /\ Len(question) < FAST_PATH_MAX_CHARS

WorkStylePatterns ==
    << <<Lits({"motivated"})
           \cup {<<"like", "work">>, <<"enjoy", "work">>, <<"passionate", "work">>,
                 <<"what", "motivate">>, <<"what", "drive">>, <<"work", "ethic">>,
                 <<"likes", "job">>, <<"enjoy", "job">>, <<"love", "work">>,
                 <<"passion", "data">>, <<"enjoy", "data">>}>>,
       <<Lits({"does ryan", "is ryan"}),
         Lits({"like", "enjoy", "love", "passionate", "motivated"}),
         Lits({"work", "working", "job", "data", "engineering"})>>,
       <<{<<"why", "ryan">>, <<"what", "ryan", "do">>, <<"what", "ryan", "like">>,
          <<"ryan", "motivation">>, <<"ryan", "drive">>}>> >>

IsWorkStyle(lower) == AnyPattern(lower, WorkStylePatterns)

PersonalPatterns ==
    << <<Lits({"family", "wife", "husband", "kids", "children", "hobby", "hobbies"})
           \cup {<<"personal", "life">>, <<"opinion", "politics">>,
                 <<"believe", "religion">>, <<"think about", "family">>,
                 <<"feel about", "relationship">>}>>,
       <<{<<"what", "ryan", "like", "personally">>, <<"who", "ryan", "personally">>,
          <<"ryan", "personality", "personal">>, <<"ryan", "personal", "life">>}>>,
       <<Lits({"cousins", "siblings", "parents", "dating"})
           \cup {<<"relationship", "status">>}>> >>

IsPersonal(lower) ==
    /\ AnyPattern(lower, PersonalPatterns)
    /\ ~Includes(lower, "skill")
    /\ ~Includes(lower, "work")
    /\ ~Includes(lower, "data")

\* classifyIntent(question, history, pageContext)
\* a classifier that looks for the self-identification phrases first
classifyIntentMadisonFirst(question, hasPageContext) ==
    LET lower == Trim(toLowerCase(question))
    IN  IF IsMadison(lower) THEN "MADISON"
        ELSE IF IsPageContext(lower, hasPageContext) THEN "PAGE_CONTEXT"
        ELSE IF IsPersonality(lower) THEN "PERSONALITY"
        ELSE IF IsAcknowledgement(lower) THEN "ACKNOWLEDGEMENT"
        ELSE IF IsFastPath(lower, question) THEN "FAST_PATH_PROFESSIONAL"
        ELSE IF IsWorkStyle(lower) THEN "WORK_STYLE"
        ELSE IF IsPersonal(lower) THEN "PERSONAL"
        ELSE "PROFESSIONAL"

classifyIntent(question, hasPageContext) ==
    LET lower == Trim(toLowerCase(question))
    IN  IF IsPageContext(lower, hasPageContext) THEN "PAGE_CONTEXT"
        ELSE IF IsPersonality(lower) THEN "PERSONALITY"
        ELSE IF IsMadison(lower) THEN "MADISON"
        ELSE IF IsAcknowledgement(lower) THEN "ACKNOWLEDGEMENT"
        ELSE IF IsFastPath(lower, question) THEN "FAST_PATH_PROFESSIONAL"
        ELSE IF IsWorkStyle(lower) THEN "WORK_STYLE"
        ELSE IF IsPersonal(lower) THEN "PERSONAL"
        ELSE "PROFESSIONAL"

----------------------------------------------------------------------------
(* Content moderation.                                                     *)

SexualPatterns ==
    << <<Lits({"sex", "sexual", "nude", "naked", "porn", "pornography", "erotic",
               "orgasm", "masturbat", "penis", "vagina", "breast", "ass", "butt",
               "dick", "cock", "pussy"})>>,
       <<Lits({"fuck", "fucking", "shit", "damn", "bitch", "asshole"})>> >>

HarassmentPatterns ==
    << <<Lits({"kill", "murder", "violence", "threat", "harm", "hurt", "attack"})>>,
       <<Lits({"hate", "racist", "nazi", "slur"})>> >>

CareerKeywords ==
    {"skill", "project", "experience", "ryan", "power bi", "python", "sql", "azure",
     "synapse", "data", "analytics", "engineering", "modeling", "dashboard",
     "portfolio", "github", "repo", "a/b", "testing", "geospatial", "react", "vite",
     "tailwind", "devops", "ci/cd"}

OffTopicWords ==
    {"weather", "sports", "politics", "religion", "cooking", "recipe", "movie", "music",
     "game", "gaming"}

OffTopicOpeners == {"hi", "hello", "hey", "what", "who", "when", "where", "why", "how"}

\* /^(hi|hello|...)\s+[^?]*\?$/.test(s)
IsOpenerQuestion(s) ==
    \E w \in OffTopicOpeners :
        /\ Len(s) >= Len(w) + 2
        /\ SubSeq(s, 1, Len(w)) = w
        /\ IsSpace(CharAt(s, Len(w) + 1))
        /\ CharAt(s, Len(s)) = "?"
        /\ \A k \in (Len(w) + 2)..(Len(s) - 1) : CharAt(s, k) # "?"

OFF_TOPIC_MIN_CHARS == 20

\* checkContentModeration(question): "allowed", "strike" or "warn"
checkContentModeration(question) ==
    LET lower == toLowerCase(question)
        hasCareerKeyword == \E kw \in CareerKeywords : Includes(lower, kw)
    IN  IF IsMadison(lower) THEN "allowed"
        ELSE IF AnyPattern(lower, SexualPatterns) THEN "strike"
        ELSE IF AnyPattern(lower, HarassmentPatterns) THEN "strike"
        ELSE IF /\ ~hasCareerKeyword
                /\ Len(question) > OFF_TOPIC_MIN_CHARS
                /\ (TestWord(lower, OffTopicWords) \/ IsOpenerQuestion(lower))
        THEN "warn"
        ELSE "allowed"


----------------------------------------------------------------------------
(* Responses.  A field the source leaves out of a response is FALSE, 0,    *)
(* "" or <<>> here; hasTrace and meta.present tell whether "trace" and     *)
(* "meta" are properties of the JSON body at all.                          *)

NoMeta ==
    [present |-> FALSE, blocked |-> FALSE, locked_until |-> 0, strikes |-> 0,
     fast_path |-> FALSE, intent |-> "", hasSources |-> FALSE, sources_used |-> <<>>,
     matched_skill_name |-> "", matched_project_slugs |-> <<>>]

\* a response whose meta is left out whatever the fields
MetaLeftOut(fields) == NoMeta

Meta(fields) == [k \in DOMAIN NoMeta |->
                    IF k = "present" THEN TRUE
                    ELSE IF k \in DOMAIN fields THEN fields[k] ELSE NoMeta[k]]

Link(title, url) == [title |-> title, url |-> url]

\* the body of a response: AskResponse
Body(answer, skills, links, missing, hasTrace, trace, meta) ==
    [answer |-> answer, skills_confirmed |-> skills, evidence_links |-> links,
     missing_info |-> missing, hasTrace |-> hasTrace, trace |-> trace, meta |-> meta]

\* safeErrorResponse(message, meta, trace)
safeErrorResponse(message, meta, trace) ==
    Body(message, <<>>, <<>>, <<>>, TRUE, trace, meta)

NoBody == Body("", <<>>, <<>>, <<>>, FALSE, <<>>, NoMeta)

NoResp == [status |-> 0]

\* res.status(status).json(body), with the Retry-After header when set (0: not set)
Send(status, kind, retryAfter, body) ==
    [status |-> status, kind |-> kind, retryAfter |-> retryAfter, body |-> body]

ContactSection == "For direct contact, visit the contact section."

\* the lockout message, with minutesLeft = Math.ceil((lockedUntil - now) / 60000)
LockedMessage(lockedUntil, t) ==
    LET minutesLeft == CeilDiv(lockedUntil - t, 60000)
    IN  "Chat is temporarily locked due to policy violations. Please try again in "
            \o ToString(minutesLeft) \o " minute"
            \o (IF minutesLeft # 1 THEN "s" ELSE "") \o ". " \o ContactSection

StrikeMessages ==
    <<"I can only help with Ryan's skills, projects, and data work. Please keep questions professional and career-related.",
      "I can't help with that. If you're evaluating Ryan for a role, ask about skills/projects. For direct contact, visit the contact section.",
      "Chat is being locked due to repeated policy violations. For direct contact, visit the contact section.">>

WarnMessage ==
    "I can only help with Ryan's skills, projects, and data work. If you'd like, ask about Power BI, Synapse, A/B testing, or his portfolio projects."

AckAnswer ==
    "Glad to help - feel free to ask about projects, tools, or how Ryan approaches his work."

PersonalAnswer ==
    "Ryan keeps his personal life private. In general, he values family and relationships, but this assistant focuses on his professional work. If you'd like to speak directly, visit the contact section."

MadisonAnswers ==
    <<"Hey Mads, I'm working, but wish we were in Aruba ;)",
      "Hey Mads, I'm working, but I'll take you out for tacos later",
      "Hey Mads, I'm working, but let's grab McDonald's later",
      "Hey Mads, I'm working, but Indian food sounds great",
      "Hey Mads, I'm working, but Mediterranean food it is">>

\* getMadisonResponse(), rnd standing for Math.floor(Math.random() * 5) + 1
getMadisonResponse(rnd) ==
    Body(MadisonAnswers[rnd], <<>>, <<>>, <<>>, FALSE, <<>>,
         Meta([fast_path |-> TRUE, intent |-> "MADISON", hasSources |-> TRUE]))

SiteUrl == "https://www.powervisualize.com"

\* getWorkStyleResponse(); the answer is abridged to its first and last sentence
getWorkStyleResponse ==
    Body("Yes - Ryan clearly enjoys building data products and solving problems. To learn more about his perspective and interests, text Ryan at 215-485-6592.",
         <<"Work Ethic", "Career Commitment">>,
         <<Link("Portfolio Site", SiteUrl), Link("About Page", SiteUrl \o "/about")>>,
         <<>>, FALSE, <<>>,
         Meta([fast_path |-> TRUE, intent |-> "WORK_STYLE", hasSources |-> TRUE]))

\* the Akuvo answer (abridged to its first sentence)
workEthicResponse ==
    Body("Absolutely! Just look around - this entire portfolio is evidence of someone who loves their work.",
         <<"Work Ethic", "Portfolio Development">>,
         <<Link("Portfolio Site", SiteUrl), Link("Data Projects", SiteUrl \o "/data-projects"),
           Link("Dashboards", SiteUrl \o "/dashboards")>>,
         <<>>, FALSE, <<>>, NoMeta)

\* getFastPathResponse(question, ...): NoBody stands for null
getFastPathResponse(question) ==
    LET lower == toLowerCase(question)
    IN  IF TestWord(lower, {"test", "validate", "quality", "governance", "best practice",
                            "rigor", "rigorous"})
        THEN Body("Yes - Ryan approaches testing, validation, and governance as core responsibilities of senior data engineering work.",
                  <<"Data Engineering", "DevOps", "Power BI">>,
                  <<Link("Power BI CI/CD", SiteUrl \o "/dashboards"),
                    Link("Data Projects", SiteUrl \o "/data-projects")>>,
                  <<>>, FALSE, <<>>, Meta([fast_path |-> TRUE]))
        ELSE IF TestWord(lower, {"senior", "expert", "experienced", "level"})
        THEN Body("Yes - Ryan operates at a senior/principal level.",
                  <<"Data Engineering", "Power BI", "Full-Stack Development">>,
                  <<Link("Portfolio Site", SiteUrl),
                    Link("Data Projects", SiteUrl \o "/data-projects")>>,
                  <<>>, FALSE, <<>>, Meta([fast_path |-> TRUE]))
        ELSE IF /\ TestWord(lower, {"power bi", "pbi", "dax", "m query", "semantic model"})
                /\ TestWord(lower, {"good", "expert", "skilled", "experienced", "use", "know"})
        THEN Body("Absolutely. Power BI is one of Ryan's strongest areas, particularly in production governance, DAX/M development, semantic modeling, and CI/CD automation.",
                  <<"Power BI", "DAX", "M">>,
                  <<Link("Power BI Dashboards", SiteUrl \o "/dashboards")>>,
                  <<>>, FALSE, <<>>, Meta([fast_path |-> TRUE]))
        ELSE NoBody

IsAkuvo(lowerQuestion) == TestWord(lowerQuestion, {"akuvo", "akvuo"})


----------------------------------------------------------------------------
(* Requests and the environment the model draws from.                      *)

MaxTicks == 2

\* the clock steps: half a second, the rest of a rate window, a lockout
ClockSteps == {500, RATE_WINDOW_MS - 500, LOCKOUT_DURATION_MS}

HeadersA == [xfwd |-> "10.0.0.1, 172.16.0.9", realIp |-> "10.0.0.2", remote |-> ""]

HeadersB == [xfwd |-> "", realIp |-> "10.0.0.2", remote |-> "10.0.0.3"]

Clients == {getClientIp(HeadersA), getClientIp(HeadersB)}

\* req.body.question after "typeof ... === 'string' ? trim() : ''"
TrimmedQuestion(body) == IF body.qtype = "string" THEN Trim(body.question) ELSE ""

Question(q) == [qtype |-> "string", question |-> q, hasPageContext |-> FALSE, path |-> ""]

LongQuestion == Repeat("tell me about python ", 39)

\* more than 800 characters before trimming, two after
PaddedOk == "ok" \o Repeat("        ", 100)

\* off topic, and no career keyword in it
WeatherQuestion == "what is the weather like in boston"

GuardBodies ==
    {[qtype |-> "missing", question |-> "", hasPageContext |-> FALSE, path |-> ""],
     [qtype |-> "number", question |-> "", hasPageContext |-> FALSE, path |-> ""],
     Question("   "),
     Question("ok"),
     Question(PaddedOk),
     Question(LongQuestion),
     Question("i hate this"),
     Question(WeatherQuestion)}

PageQuestion(q, path) ==
    [qtype |-> "string", question |-> q, hasPageContext |-> TRUE, path |-> path]

\* a fast-path question with a word of the harassment patterns
FastPathAbuse == "does ryan use hate speech"

\* the self-identification phrase with a word of the harassment patterns
MadisonAbuse == "this is madison, i hate this"

\* the questions of the retrieval runs
\* a question with an alias of Power BI and the name of Python
AliasAndName == "has ryan used pbi with python"

\* a question about Snowflake, a skill of the store without a project and
\* without an entry in the skills matrix
UnmappedSkill == "has ryan used snowflake"

RetrievalBodies ==
    {Question("ok"),
     Question("what projects prove power bi skills"),
     Question("what projects prove python skills"),
     Question("has ryan worked with kubernetes"),
     Question("tell me about quantum computing experience"),
     Question("how does ryan use dbt"),
     Question("does ryan like python"),
     Question("what is ryan's favorite movie"),
     PageQuestion("what page am i on", "/dashboards/sales-overview"),
     PageQuestion("what page am i on", "/drafts/unlisted"),
     Question(FastPathAbuse),
     Question("is ryan motivated to attack problems"),
     Question("tell me about his family, damn it"),
     Question("does ryan like violence"),
     Question("this is madison"),
     Question("is ryan senior"),
     Question(MadisonAbuse),
     Question("this is madison, does ryan like violence"),
     PageQuestion("this is madison, which damn page is this", "/dashboards/sales-overview"),
     Question(AliasAndName),
     Question(UnmappedSkill)}

AllBodies == GuardBodies \cup RetrievalBodies

QuestionTable == {<<b, TrimmedQuestion(b)>> : b \in AllBodies}

\* the question the handler works with, looked up where it was computed
QuestionOf(body) == (CHOOSE m \in QuestionTable : m[1] = body)[2]

Request(headers, method, body) ==
    [client |-> getClientIp(headers), method |-> method, body |-> body]

GuardRequests ==
    {Request(HeadersA, "POST", b) : b \in GuardBodies}
        \cup {Request(HeadersA, m, Question("ok")) : m \in {"OPTIONS", "GET"}}

\* the configurations of the guard runs: with and without OPENAI_API_KEY
Envs ==
    {[apiKey |-> TRUE, hasDb |-> TRUE, dataFiles |-> TRUE],
     [apiKey |-> FALSE, hasDb |-> TRUE, dataFiles |-> TRUE]}

NoCur == [intent |-> ""]

NoRank == [called |-> FALSE]

NoTwin == [present |-> FALSE]

\* the ghost count of the client's POSTs that reached the rate limiter in the
\* ten minutes that its first such request opened
NoWindow == [start |-> 0, n |-> 0]

NoHist == [c \in Clients |-> <<>>]

NoCls == [called |-> FALSE]

\* no generator call yet: call is "none", "pending", "settled" or "aborted",
\* abortTimer and rejectTimer are the two timers of the call, connected is
\* FALSE once the client has gone and goneDuring what the call was then, sent
\* counts the responses to the request, out is what the call returned
NoRace == [call |-> "none", genAt |-> 0, abortTimer |-> FALSE, rejectTimer |-> FALSE,
           connected |-> TRUE, goneDuring |-> "", sent |-> 0, sentAt |-> 0,
           out |-> [kind |-> "none"]]

----------------------------------------------------------------------------
(* The handler evaluates classifyIntent, checkContentModeration and        *)
(* getFastPathResponse once per request; the tables below hold their       *)
(* results for the questions of the model, so that each is computed once.  *)

\* the questions of the model as the handler sees them, trimmed
AllQuestions == {QuestionOf(b) : b \in AllBodies}

\* the questions that pass validation
ValidQuestions == {q \in AllQuestions : q # "" /\ Len(q) <= MAX_QUESTION_CHARS}

IntentTable ==
    {<<q, h, classifyIntent(q, h)>> : q \in AllQuestions, h \in BOOLEAN}

IntentOf(q, h) == (CHOOSE m \in IntentTable : m[1] = q /\ m[2] = h)[3]

ModerationTable == {<<q, checkContentModeration(q)>> : q \in AllQuestions}

\* a moderator that allows every question
ModerationAllowsAll(q) == "allowed"

ModerationOf(q) == (CHOOSE m \in ModerationTable : m[1] = q)[2]

FastPathTable == {<<q, getFastPathResponse(q)>> : q \in AllQuestions}

\* no fast-path answer for any question
FastPathNone(q) == NoBody

FastPathOf(q) == (CHOOSE m \in FastPathTable : m[1] = q)[2]

AkuvoTable == {<<q, IsAkuvo(toLowerCase(q))>> : q \in AllQuestions}

AkuvoOf(q) == (CHOOSE m \in AkuvoTable : m[1] = q)[2]

----------------------------------------------------------------------------
(* The handler up to its first await: method check, guard, validation,     *)
(* intent routing, moderation, the canned answers.                         *)

\* a length check that lets a thousand characters through
TooLongOverThousand(question) == Len(question) > MAX_QUESTION_CHARS + 200

\* question.length > 800
TooLong(question) == Len(question) > MAX_QUESTION_CHARS

PageUnmappedAnswer(path) ==
    "You're on " \o (IF path = "" THEN "an unknown page" ELSE path)
        \o ". This page isn't mapped in the portfolio database yet."

\* the handler's module imports ./_db.js, whose body throws when
\* DATABASE_URL is not set: the module of the handler does not load
ModuleLoads(e) == e.hasDb

\* the platform's answer for a function whose module failed to load
InvocationFailed == Send(500, "crash", 0, NoBody)

\* what the synchronous prefix of the handler does with a request:
\* the guard maps after it, and either the response sent or where it awaits
SyncPrefix(rm, sm, e, t, req, rnd) ==
    LET ip == req.client
        stop(send, rm2, sm2, calls) ==
            [rateMap |-> rm2, strikeMap |-> sm2, done |-> TRUE, send |-> send,
             pc |-> "idle", intent |-> "", calls |-> calls]
        await(where, intent, rm2, sm2, calls) ==
            [rateMap |-> rm2, strikeMap |-> sm2, done |-> FALSE, send |-> NoResp,
             pc |-> where, intent |-> intent, calls |-> calls]
    IN
    IF ~ModuleLoads(e) THEN stop(InvocationFailed, rm, sm, {})
    ELSE IF req.method = "OPTIONS" THEN stop(Send(204, "options", 0, NoBody), rm, sm, {})
    ELSE IF req.method # "POST"
    THEN stop(Send(405, "method", 0,
                   safeErrorResponse("Method not allowed. Use POST.", NoMeta, <<>>)),
              rm, sm, {})
    ELSE
    LET strikeCheck == checkStrikes(sm, ip, t) IN
    IF strikeCheck.lockedUntil # 0
    THEN stop(Send(200, "locked", 0,
                   safeErrorResponse(LockedMessage(strikeCheck.lockedUntil, t),
                       Meta([blocked |-> TRUE, locked_until |-> strikeCheck.lockedUntil,
                             strikes |-> strikeCheck.strikes]), <<>>)),
              rm, strikeCheck.map, {})
    ELSE
    LET rl == rateLimit(rm, ip, t)
        sm1 == strikeCheck.map
        rm1 == rl.map
    IN
    IF ~rl.ok
    THEN stop(Send(429, "rate", rl.retryAfterSec,
                   safeErrorResponse("Rate limit exceeded. Please try again shortly.",
                                     NoMeta, <<>>)),
              rm1, sm1, {})
    ELSE IF ~e.apiKey
    THEN stop(Send(500, "nokey", 0,
                   safeErrorResponse("Server misconfigured: OPENAI_API_KEY is not set.",
                                     NoMeta, <<>>)),
              rm1, sm1, {})
    ELSE
    LET question == QuestionOf(req.body) IN
    IF question = ""
    THEN stop(Send(400, "missing", 0,
                   safeErrorResponse("Missing required field: question", NoMeta, <<>>)),
              rm1, sm1, {})
    ELSE IF TooLong(question)
    THEN stop(Send(400, "toolong", 0,
                   safeErrorResponse("Question is too long (max 800 chars).", NoMeta, <<>>)),
              rm1, sm1, {})
    ELSE
    LET intent == IntentOf(question, req.body.hasPageContext)
        c1 == {"classifyIntent"}
    IN
    IF intent = "PAGE_CONTEXT"
    THEN IF ~e.hasDb \/ ~req.body.hasPageContext \/ req.body.path = ""
         THEN stop(Send(200, "page", 0,
                        Body(PageUnmappedAnswer(IF req.body.hasPageContext
                                                THEN req.body.path ELSE ""),
                             <<>>, <<>>, <<>>, FALSE, <<>>,
                             Meta([intent |-> "PAGE_CONTEXT", hasSources |-> TRUE]))),
                   rm1, sm1, c1)
         ELSE await("page", intent, rm1, sm1, c1)
    ELSE IF intent = "PERSONALITY"
    THEN IF ~e.hasDb
         THEN stop(Send(200, "personality", 0,
                        Body("Personality data is not available. Please ask about Ryan's professional skills and projects instead.",
                             <<>>, <<>>, <<>>, FALSE, <<>>,
                             Meta([intent |-> "PERSONALITY", hasSources |-> TRUE]))),
                   rm1, sm1, c1)
         ELSE await("pers", intent, rm1, sm1, c1)
    ELSE IF intent = "ACKNOWLEDGEMENT"
    THEN stop(Send(200, "ack", 0,
                   Body(AckAnswer, <<>>, <<>>, <<>>, FALSE, <<>>,
                        Meta([intent |-> "ACKNOWLEDGEMENT", fast_path |-> TRUE,
                              hasSources |-> TRUE]))),
              rm1, sm1, c1)
    ELSE IF intent = "MADISON"
    THEN stop(Send(200, "madison", 0, getMadisonResponse(rnd)), rm1, sm1, c1)
    ELSE IF intent = "WORK_STYLE"
    THEN stop(Send(200, "workstyle", 0, getWorkStyleResponse), rm1, sm1, c1)
    ELSE IF intent = "PERSONAL"
    THEN stop(Send(200, "personal", 0,
                   Body(PersonalAnswer, <<>>, <<>>, <<>>, FALSE, <<>>,
                        Meta([intent |-> "PERSONAL", fast_path |-> TRUE,
                              hasSources |-> TRUE]))),
              rm1, sm1, c1)
    ELSE
    LET moderation == ModerationOf(question)
        c2 == c1 \cup {"moderation"}
    IN
    IF moderation = "strike"
    THEN LET strikeResult == addStrike(sm1, ip, t)
             messageIndex == Min(strikeResult.strikes - 1, Len(StrikeMessages) - 1)
         IN  stop(Send(200, "strike", 0,
                       safeErrorResponse(StrikeMessages[messageIndex + 1],
                           Meta([blocked |-> TRUE, strikes |-> strikeResult.strikes,
                                 locked_until |-> strikeResult.lockedUntil]), <<>>)),
                  rm1, strikeResult.map, c2)
    ELSE IF moderation = "warn"
    THEN stop(Send(200, "warn", 0, safeErrorResponse(WarnMessage, NoMeta, <<>>)),
              rm1, sm1, c2)
    ELSE IF ~e.dataFiles
    THEN stop(Send(500, "nodata", 0,
                   safeErrorResponse("Internal server error: data files not available.",
                                     NoMeta, <<>>)),
              rm1, sm1, c2)
    ELSE IF AkuvoOf(question)
    THEN stop(Send(200, "akuvo", 0, workEthicResponse), rm1, sm1, c2)
    ELSE IF intent = "FAST_PATH_PROFESSIONAL" /\ FastPathOf(question) # NoBody
    THEN stop(Send(200, "fastpath", 0, FastPathOf(question)), rm1, sm1, c2)
    ELSE await(IF e.hasDb THEN "db" ELSE "gen", intent, rm1, sm1, c2)


----------------------------------------------------------------------------
(* Ranking of the projects linked to a detected skill.                     *)

\* countsMap.get(id) || {} with every absent count read as 0
NoCounts == [dashboard_pages |-> 0, project_pages |-> 0, skills_count |-> 0]

CountsOf(countsMap, id) == IF id \in DOMAIN countsMap THEN countsMap[id] ELSE NoCounts

MetaSlug == "ryagent"

\* a row of the skill-first query (proof_weight 0 stands for null)
Candidate(id, slug, name, pw) ==
    [project_id |-> id, slug |-> slug, name |-> name, proof_weight |-> pw]

\* categorizeProject(slug, counts)
categorizeProject(slug, counts) ==
    IF slug = MetaSlug THEN "meta"
    ELSE IF counts.dashboard_pages > 0 THEN "dashboard"
    ELSE "project"

\* isAssistantQuestion(question)
isAssistantQuestion(question) ==
    LET lower == toLowerCase(question)
    IN  \/ TestWord(lower, {"ryagent", "assistant", "chatbot", "openai"})
        \/ TestWords(lower, <<Lits({"ai", "portfolio"}), Lits({"assistant"})>>)

PlatformSkills ==
    {"microsoft fabric", "fabric", "power bi", "pbi", "dax", "power query", "m query",
     "sql", "t-sql", "azure synapse", "synapse", "semantic model", "semantic models"}

\* isPlatformSkill(skill)
isPlatformSkill(skill) == \E ps \in PlatformSkills : Includes(toLowerCase(skill), ps)

\* /\b(?:dbt|data build tool)\b/i.test(question)
isDbtQuestion(question) == TestWord(toLowerCase(question), {"dbt", "data build tool"})

DEFAULT_PROOF_WEIGHT == 3

\* candidate.proof_weight || 3 (0 stands for null)
ProofWeightOf(candidate) ==
    IF candidate.proof_weight = 0 THEN DEFAULT_PROOF_WEIGHT ELSE candidate.proof_weight

CategoryWeight(category, isPlatform) ==
    IF isPlatform
    THEN (IF category = "dashboard" THEN 100 ELSE IF category = "project" THEN 50 ELSE 0)
    ELSE (IF category = "project" THEN 100 ELSE IF category = "dashboard" THEN 50 ELSE 0)

\* a penalty that counts in the meta project's favour
RyagentPenaltyFlipped(slug, isAssistantQ, isDbtQ, isPlatform) ==
    IF slug = MetaSlug /\ ~isAssistantQ /\ ~isDbtQ
    THEN (IF isPlatform THEN 200 ELSE 100)
    ELSE 0

RyagentPenalty(slug, isAssistantQ, isDbtQ, isPlatform) ==
    IF slug = MetaSlug /\ ~isAssistantQ /\ ~isDbtQ
    THEN (IF isPlatform THEN -200 ELSE -100)
    ELSE 0

\* a ranking without the bonus
RyagentBonusNone(slug, isDbtQ) == 0

RyagentBonus(slug, isDbtQ) == IF slug = MetaSlug /\ isDbtQ THEN 200 ELSE 0

\* rankScore of one candidate
RankScore(candidate, countsMap, isAssistantQ, isPlatform, isDbtQ) ==
    LET counts == CountsOf(countsMap, candidate.project_id)
        category == categorizeProject(candidate.slug, counts)
    IN  CategoryWeight(category, isPlatform) + ProofWeightOf(candidate) * 10
            + counts.skills_count
            + RyagentPenalty(candidate.slug, isAssistantQ, isDbtQ, isPlatform)
            + RyagentBonus(candidate.slug, isDbtQ)

\* Array.prototype.sort((a, b) => b.rank_score - a.rank_score): stable,
\* descending
InsertRanked(sorted, c) ==
    LET k == Cardinality({i \in 1..Len(sorted) : sorted[i].rank_score >= c.rank_score})
    IN  SubSeq(sorted, 1, k) \o <<c>> \o SubSeq(sorted, k + 1, Len(sorted))

RECURSIVE SortByRankScore(_)
SortByRankScore(scored) ==
    IF scored = <<>> THEN <<>>
    ELSE InsertRanked(SortByRankScore(SubSeq(scored, 1, Len(scored) - 1)),
                      scored[Len(scored)])

\* rankProjects(candidates, countsMap, skill, question); skill "" stands for null
rankProjects(candidates, countsMap, skill, question) ==
    LET isAssistantQ == isAssistantQuestion(question)
        isPlatform == IF skill = "" THEN FALSE ELSE isPlatformSkill(skill)
        isDbtQ == isDbtQuestion(question)
        scored == [i \in 1..Len(candidates) |->
                     [project_id |-> candidates[i].project_id,
                      slug |-> candidates[i].slug,
                      name |-> candidates[i].name,
                      proof_weight |-> candidates[i].proof_weight,
                      rank_score |-> RankScore(candidates[i], countsMap, isAssistantQ,
                                               isPlatform, isDbtQ)]]
    IN  SortByRankScore(scored)

----------------------------------------------------------------------------
(* The analytical store (Postgres marts) and the data files.  The contents *)
(* are inputs of the handler; DataSets indexes the ones the model draws.   *)

DataSets == {1, 2}

Skill(id, name, aliases, confidence) ==
    [skill_id |-> id, name |-> name, aliases |-> aliases, confidence |-> confidence]

\* analytics.stg_skills
StoreSkills(d) ==
    <<Skill("s-pbi", "Power BI", {"PBI", "Power BI Desktop"}, "expert"),
      Skill("s-py", "Python", {"pandas"}, "expert"),
      Skill("s-dbt", "dbt", {"data build tool"}, "strong"),
      Skill("s-k8s", "Kubernetes", {"k8s"}, "strong"),
      Skill("s-sf", "Snowflake", {}, "strong")>>

Project(id, slug, name, summary, status) ==
    [project_id |-> id, slug |-> slug, name |-> name, summary |-> summary,
     status |-> status]

\* analytics.dim_projects
StoreProjects(d) ==
    <<Project("p-sales", "sales-dashboard", "Sales Dashboard",
              "Revenue and pipeline reporting", "published"),
      Project("p-ops", "ops-dashboard", "Operations Dashboard",
              "Service levels by site", "published"),
      Project("p-nyc", "nyc-risk-model", "NYC Risk Model",
              "Geospatial risk scoring", "published"),
      Project("p-lab", "python-lab", "Python Lab", "Notebook experiments", "draft"),
      Project("p-rya", MetaSlug, "RyAgent", "The portfolio assistant", "published")>>

Page(id, slug, title, path, type, project) ==
    [page_id |-> id, slug |-> slug, title |-> title,
     url |-> "https://www.powervisualize.com" \o path, page_type |-> type,
     project_id |-> project]

\* analytics.dim_pages joined with analytics.fct_project_pages
StorePages(d) ==
    <<Page("g-1", "sales-overview", "Sales Overview", "/dashboards/sales-overview",
           "dashboard", "p-sales"),
      Page("g-2", "sales-pipeline", "Sales Pipeline", "/dashboards/sales-pipeline",
           "dashboard", "p-sales"),
      Page("g-3", "ops-overview", "Operations Overview", "/dashboards/ops-overview",
           "dashboard", "p-ops"),
      Page("g-4", "nyc-risk-model", "NYC Risk Model", "/data-projects/nyc-risk-model",
           "project", "p-nyc"),
      Page("g-5", "ryagent-chatbot-dbt-project", "RyAgent Chatbot dbt Project",
           "/data-projects/ryagent-chatbot-dbt-project", "project", "p-rya"),
      Page("g-6", "contact", "Contact", "/contact", "site", "")>>

Fact(project, skill, weight) ==
    [project_id |-> project, skill_id |-> skill, proof_weight |-> weight]

\* analytics.fct_project_skills: in the second data set Kubernetes is linked
\* to the meta project and to no other
StoreFacts(d) ==
    {Fact("p-sales", "s-pbi", 4), Fact("p-ops", "s-pbi", 5), Fact("p-rya", "s-pbi", 5),
     Fact("p-nyc", "s-py", 5), Fact("p-lab", "s-py", 3), Fact("p-rya", "s-py", 2),
     Fact("p-rya", "s-dbt", 5)}
        \cup (IF d = 2 THEN {Fact("p-rya", "s-k8s", 3)} ELSE {})

Personality(category, subcategory, value) ==
    [category |-> category, subcategory |-> subcategory, value |-> value]

\* the public personality items of the primary team member, in the order of
\* the mart (category, subcategory)
StorePersonality(d) ==
    <<Personality("favorites", "movie", "The Lord of the Rings"),
      Personality("favorites", "sport", "Snowboarding"),
      Personality("interests", "travel", "National parks")>>

MatrixSkill(skill, aliases, summary, proof) ==
    [skill |-> skill, aliases |-> aliases, summary |-> summary, proof |-> proof]

\* data/skills_matrix.json: the two data sets differ in the summary of the
\* Power BI entry
PowerBiSummary(d) ==
    IF d = 1
    THEN "Expert Power BI developer for enterprise dashboards and semantic models."
    ELSE "Expert Power BI developer; I cannot confirm paginated-report work from current evidence."

skillsMatrix(d) ==
    <<MatrixSkill("Power BI", <<"PBI">>, PowerBiSummary(d),
                  <<Link("Power BI Dashboards", SiteUrl \o "/dashboards")>>),
      MatrixSkill("Python", <<"pandas">>,
                  "Expert Python developer for ETL, data analysis, and geospatial analytics.",
                  <<Link("Data Projects", SiteUrl \o "/data-projects")>>),
      MatrixSkill("Kubernetes", <<"k8s">>, "",
                  <<Link("Platform Engineering", SiteUrl \o "/data-projects")>>)>>

Range(seq) == {seq[i] : i \in 1..Len(seq)}

\* seq.slice(0, n)
Slice(seq, n) == SubSeq(seq, 1, Min(n, Len(seq)))

\* analytics.fct_project_counts: one row per project
ProjectCounts(d, id) ==
    [dashboard_pages |->
        Cardinality({i \in 1..Len(StorePages(d)) :
            StorePages(d)[i].project_id = id /\ StorePages(d)[i].page_type = "dashboard"}),
     project_pages |->
        Cardinality({i \in 1..Len(StorePages(d)) :
            StorePages(d)[i].project_id = id /\ StorePages(d)[i].page_type = "project"}),
     skills_count |-> Cardinality({f \in StoreFacts(d) : f.project_id = id})]

ProjectIds(d) == {StoreProjects(d)[i].project_id : i \in 1..Len(StoreProjects(d))}

ProjectById(d, id) ==
    StoreProjects(d)[CHOOSE i \in 1..Len(StoreProjects(d)) :
                         StoreProjects(d)[i].project_id = id]

\* the global statistics of the store
PublishedProjects(d) ==
    Cardinality({i \in 1..Len(StoreProjects(d)) : StoreProjects(d)[i].status = "published"})

TotalSkills(d) == Len(StoreSkills(d))

TotalDashboardPages(d) ==
    Cardinality({i \in 1..Len(StorePages(d)) : StorePages(d)[i].page_type = "dashboard"})

----------------------------------------------------------------------------
(* Retrieval: the queries of the handler against the store.  A query       *)
(* without ORDER BY returns its rows in any order; the trigram similarity  *)
(* of pg_trgm is a collaborator whose matches the model draws.             *)

RECURSIVE Join(_, _)
\* parts.join(sep)
Join(parts, sep) ==
    IF parts = <<>> THEN ""
    ELSE IF Len(parts) = 1 THEN parts[1]
    ELSE parts[1] \o sep \o Join(Tail(parts), sep)

\* the "s" of a plural
Plural(n) == IF n > 1 THEN "s" ELSE ""

RECURSIVE Dedupe(_)
\* Array.from(new Set(lines))
Dedupe(lines) ==
    IF lines = <<>> THEN <<>>
    ELSE LET front == Dedupe(SubSeq(lines, 1, Len(lines) - 1))
             last == lines[Len(lines)]
         IN  IF last \in Range(front) THEN front ELSE Append(front, last)

\* the orders in which a query may return the rows S, at most limit of them
Orderings(S, limit) ==
    LET n == Min(Cardinality(S), limit)
    IN  {f \in [1..n -> S] : \A i, j \in 1..n : i # j => f[i] # f[j]}

\* the skills whose name or one of whose aliases is contained in the question
SkillMatches(d, lowerQuestion) ==
    {sk \in Range(StoreSkills(d)) :
        \/ Includes(lowerQuestion, toLowerCase(sk.name))
        \/ \E a \in sk.aliases : Includes(lowerQuestion, toLowerCase(a))}

\* order by length(name) desc limit 1: the names the query may return
LongestNames(S) ==
    {sk.name : sk \in {x \in S : \A y \in S : Len(x.name) >= Len(y.name)}}

\* where lower(s.name) like '%word%'
FuzzyMatches(d, word) ==
    {sk \in Range(StoreSkills(d)) : Includes(toLowerCase(sk.name), word)}

\* the values detectedSkill may take ("" stands for null)
DetectedSkills(d, lowerQuestion) ==
    LET direct == SkillMatches(d, lowerQuestion)
        fabric == IF /\ Includes(lowerQuestion, "fabric")
                     /\ ~Includes(lowerQuestion, "microsoft fabric")
                  THEN LongestNames(FuzzyMatches(d, "fabric")) ELSE {}
        dbt == IF Includes(lowerQuestion, "dbt") \/ Includes(lowerQuestion, "data build tool")
               THEN LongestNames(FuzzyMatches(d, "dbt")) ELSE {}
    IN  IF direct # {} THEN LongestNames(direct)
        ELSE IF fabric # {} THEN fabric
        ELSE IF dbt # {} THEN dbt
        ELSE {""}

SKILL_FIRST_LIMIT == 10

\* the rows of the skill-first query: the projects linked to the skill, each
\* with its greatest proof_weight
SkillFirstRows(d, detectedSkill) ==
    LET ids == {sk.skill_id : sk \in {x \in Range(StoreSkills(d)) :
                                toLowerCase(x.name) = toLowerCase(detectedSkill)}}
        linked == {f.project_id : f \in {x \in StoreFacts(d) : x.skill_id \in ids}}
                      \cap ProjectIds(d)
        weight(id) == LET ws == {f.proof_weight : f \in {x \in StoreFacts(d) :
                                     x.project_id = id /\ x.skill_id \in ids}}
                      IN  CHOOSE w \in ws : \A v \in ws : w >= v
    IN  {Candidate(id, ProjectById(d, id).slug, ProjectById(d, id).name, weight(id)) :
            id \in linked}

\* what pg_trgm may match for a question: projects with their score, as
\* toFixed(2) prints it, and skills
TrigramProject(id, score) == [project_id |-> id, score |-> score]

TrigramOutcomes ==
    {[projects |-> <<>>, skills |-> <<>>],
     [projects |-> <<TrigramProject("p-nyc", "0.42")>>, skills |-> <<>>],
     [projects |-> <<>>, skills |-> <<"s-k8s">>],
     [projects |-> <<>>, skills |-> <<"s-pbi", "s-py">>],
     [projects |-> <<TrigramProject("p-nyc", "0.42"), TrigramProject("p-sales", "0.38"),
                     TrigramProject("p-ops", "0.35"), TrigramProject("p-lab", "0.33"),
                     TrigramProject("p-rya", "0.31")>>,
      skills |-> <<>>]}

\* the skills one of whose aliases contains the whole question
AliasMatches(d, searchText) ==
    SelectSeq([i \in 1..Len(StoreSkills(d)) |-> StoreSkills(d)[i].skill_id],
              LAMBDA id : \E sk \in Range(StoreSkills(d)) :
                  /\ sk.skill_id = id
                  /\ \E a \in sk.aliases : Includes(toLowerCase(a), toLowerCase(searchText)))

DERIVED_LIMIT == 3

RECURSIVE SumProofWeights(_)
\* sum(coalesce(ps.proof_weight, 0))
SumProofWeights(fs) ==
    IF fs = {} THEN 0
    ELSE LET f == CHOOSE x \in fs : TRUE
         IN  f.proof_weight + SumProofWeights(fs \ {f})

\* the derived projects without the limit of the query
DerivedProjectsAll(d, skillIds) ==
    LET facts(id) == {f \in StoreFacts(d) : f.project_id = id /\ f.skill_id \in skillIds}
        rows == SelectSeq([i \in 1..Len(StoreProjects(d)) |->
                    [project_id |-> StoreProjects(d)[i].project_id,
                     rank_score |->
                        Cardinality(facts(StoreProjects(d)[i].project_id)) * 1000
                            + SumProofWeights(facts(StoreProjects(d)[i].project_id))]],
                    LAMBDA r : r.rank_score > 0)
        sorted == SortByRankScore(rows)
    IN  [i \in 1..Len(rows) |-> sorted[i].project_id]

\* the projects derived from the matched skills: most matched skills first,
\* then greatest total proof_weight (equal rows in the order of the table),
\* three at most
DerivedProjects(d, skillIds) ==
    LET facts(id) == {f \in StoreFacts(d) : f.project_id = id /\ f.skill_id \in skillIds}
        rows == SelectSeq([i \in 1..Len(StoreProjects(d)) |->
                    [project_id |-> StoreProjects(d)[i].project_id,
                     rank_score |->
                        Cardinality(facts(StoreProjects(d)[i].project_id)) * 1000
                            + SumProofWeights(facts(StoreProjects(d)[i].project_id))]],
                    LAMBDA r : r.rank_score > 0)
        sorted == SortByRankScore(rows)
    IN  [i \in 1..Min(DERIVED_LIMIT, Len(rows)) |-> sorted[i].project_id]

RyagentIsProofSkills ==
    {"dbt", "data build tool", "postgresql", "postgres", "neon", "dbt marts",
     "semantic layer"}

\* isPersonalityQuestion of the retrieval
IsPersonalityQuestion(lower) ==
    TestWord(lower, {"favorite", "favorites", "like", "likes", "enjoy", "enjoys",
                     "hobby", "hobbies", "interest", "interests", "value", "values",
                     "personality", "personal", "preference", "preferences",
                     "what does ryan", "what's ryan", "ryan's favorite", "ryan likes",
                     "ryan enjoys"})

\* `${p.slug || p.name}${p.match_type === 'skill' ? '' : ` (${p.score.toFixed(2)})`}`
\* of the first three candidates, joined
CandidateNames(candidates) ==
    Join([i \in 1..Min(3, Len(candidates)) |->
             (IF candidates[i].slug # "" THEN candidates[i].slug ELSE candidates[i].name)
                 \o (IF candidates[i].match_type = "skill" THEN ""
                     ELSE " (" \o candidates[i].score \o ")")], ", ")

FoundLine(candidates, detectedSkill) ==
    "Found " \o ToString(Min(3, Len(candidates))) \o " project"
        \o Plural(Len(candidates)) \o " linked to " \o detectedSkill \o ": "
        \o CandidateNames(candidates) \o "."

MatchedLine(candidates) ==
    "Matched " \o ToString(Min(3, Len(candidates))) \o " project"
        \o Plural(Len(candidates)) \o " by fuzzy search: "
        \o CandidateNames(candidates) \o "."

DerivedLine(nProjects, nSkills) ==
    "Derived " \o ToString(nProjects) \o " project" \o Plural(nProjects) \o " from "
        \o ToString(nSkills) \o " matched skill" \o Plural(nSkills) \o "."

\* one entry of the "Top matches" line
TopMatch(slug, counts) ==
    slug \o " (" \o ToString(counts.skills_count) \o " skill"
        \o (IF counts.skills_count # 1 THEN "s" ELSE "")
        \o (IF counts.dashboard_pages > 0
            THEN ", " \o ToString(counts.dashboard_pages) \o " dashboard"
                     \o Plural(counts.dashboard_pages)
            ELSE "")
        \o ")"

TRACE_MAX_LINES == 4

DASHBOARDS_FOR_LINK == 3

\* a store that links no dashboard to any skill
NoDashboardsForSkill(d, detectedSkill) == 0

\* count(distinct dp.page_id) of the dashboards of the projects linked to the skill
TotalDashboardsForSkill(d, detectedSkill) ==
    LET linked == {c.project_id : c \in SkillFirstRows(d, detectedSkill)}
    IN  Cardinality({i \in 1..Len(StorePages(d)) :
            StorePages(d)[i].project_id \in linked
                /\ StorePages(d)[i].page_type = "dashboard"})

\* skillsMatrix.skills.find(...): the entries named like the detected skill
MatrixEntries(d, detectedSkill) ==
    SelectSeq(skillsMatrix(d), LAMBDA m :
        \/ toLowerCase(m.skill) = toLowerCase(detectedSkill)
        \/ \E a \in Range(m.aliases) : toLowerCase(a) = toLowerCase(detectedSkill))

FabricContext ==
    "Ryan has Microsoft Fabric experience for enterprise analytics, including Lakehouse/warehouse modeling, pipelines/orchestration, dimensional schemas, and governed semantic models for Power BI."

NoLinksLine ==
    "No project links found in portfolio DB yet - using canonical skillsets evidence."

IsFabricSkill(detectedSkill) ==
    \/ Includes(toLowerCase(detectedSkill), "microsoft fabric")
    \/ Includes(toLowerCase(detectedSkill), "fabric")

NoTrigram == [projects |-> <<>>, skills |-> <<>>]

\* what the retrieval found, kept with the response: trigram is what the
\* store answers to the pg_trgm searches, trigramSearched and derivedSearched
\* whether the fuzzy project search and the derivation from the matched
\* skills were run, discard whether the candidates were dropped for being the
\* meta project alone
NoInfo == [retrieved |-> FALSE, detectedSkill |-> "", matchedSkills |-> <<>>,
           projectCandidates |-> <<>>, finalProjectIds |-> <<>>,
           trigram |-> NoTrigram, trigramSearched |-> FALSE,
           derivedSearched |-> FALSE, discard |-> FALSE]

\* dbPayload._meta (dbPayload null: present FALSE)
NoPayload == [present |-> FALSE, sources_used |-> <<>>, matched_skill_name |-> "",
              matched_project_slugs |-> <<>>]

\* the first three projects of the skill-first query, ranked
SkillCandidates(ranked) ==
    [i \in 1..Min(3, Len(ranked)) |->
        [project_id |-> ranked[i].project_id, slug |-> ranked[i].slug,
         name |-> ranked[i].name, score |-> "", match_type |-> "skill"]]

\* the projects pg_trgm matched
TrigramCandidates(d, projects) ==
    [i \in 1..Len(projects) |->
        [project_id |-> projects[i].project_id,
         slug |-> ProjectById(d, projects[i].project_id).slug,
         name |-> ProjectById(d, projects[i].project_id).name,
         score |-> projects[i].score, match_type |-> "trigram"]]

\* the searches of the retrieval for one question: detectedSkill and rows
\* (the skill-first rows in the order the store returned them) and trigram
\* (what pg_trgm matched) are what the store answered
ProjectSearch(d, question, detectedSkill, rows, trigram) ==
    LET countsMap == [id \in {rows[i].project_id : i \in 1..Len(rows)} |->
                         ProjectCounts(d, id)]
        skillFirstMatch == detectedSkill # "" /\ Len(rows) > 0
    IN  [skillFirstMatch |-> skillFirstMatch,
         trigram |-> trigram,
         projectCandidates |->
            IF skillFirstMatch
            THEN SkillCandidates(rankProjects(rows, countsMap, detectedSkill, question))
            ELSE TrigramCandidates(d, trigram.projects),
         matchedSkills |-> Dedupe(trigram.skills \o AliasMatches(d, question))]

\* the final selection of projects from what the searches found
FinalSelection(d, question, detectedSkill, found) ==
    LET candidates0 == found.projectCandidates
        onlyRyagent == /\ Len(candidates0) > 0
                       /\ \A i \in 1..Len(candidates0) : candidates0[i].slug = MetaSlug
                       /\ ~isAssistantQuestion(question)
        isRyagentProofSkill ==
            /\ detectedSkill # ""
            /\ \E ps \in RyagentIsProofSkills : Includes(toLowerCase(detectedSkill), ps)
        discard == onlyRyagent /\ detectedSkill # "" /\ ~isRyagentProofSkill
        projectCandidates == IF discard THEN <<>> ELSE candidates0
        derived == IF Len(candidates0) = 0 /\ Len(found.matchedSkills) > 0
                   THEN DerivedProjects(d, Range(found.matchedSkills)) ELSE <<>>
    IN  [projectCandidates |-> projectCandidates,
         discard |-> discard,
         derivedSearched |-> Len(candidates0) = 0 /\ Len(found.matchedSkills) > 0,
         finalProjectIds |->
            IF Len(candidates0) > 0
            THEN [i \in 1..Min(3, Len(projectCandidates)) |-> projectCandidates[i].project_id]
            ELSE derived,
         lines |->
            IF Len(candidates0) > 0
            THEN (IF discard THEN <<>>
                  ELSE IF found.skillFirstMatch
                  THEN <<FoundLine(projectCandidates, detectedSkill)>>
                  ELSE <<MatchedLine(projectCandidates)>>)
            ELSE IF Len(derived) > 0
            THEN <<DerivedLine(Len(derived), Len(found.matchedSkills))>>
            ELSE <<>>]

\* analytics.mart_project_profile and analytics.fct_project_counts of the
\* selected projects
MatchedProfiles(d, finalProjectIds) ==
    LET matchedProjects ==
            SelectSeq(StoreProjects(d), LAMBDA pr : pr.project_id \in Range(finalProjectIds))
    IN  [matchedProjects |-> matchedProjects,
         matchedCounts |->
            [i \in 1..Len(matchedProjects) |->
                ProjectCounts(d, matchedProjects[i].project_id)]]

\* the lines of the trace about the profiles
ProfileLines(d, lowerQuestion, detectedSkill, found, sel, prof) ==
    LET personalityItems == Len(StorePersonality(d))
        hasDashboardProjects ==
            \E i \in 1..Len(prof.matchedCounts) : prof.matchedCounts[i].dashboard_pages > 0
    IN  IF Len(sel.finalProjectIds) > 0 /\ Len(prof.matchedProjects) > 0
        THEN (IF IsPersonalityQuestion(lowerQuestion) /\ personalityItems > 0
              THEN <<"Searching " \o ToString(personalityItems)
                        \o " personality attribute" \o Plural(personalityItems) \o "...">>
              ELSE <<>>)
             \o (IF found.skillFirstMatch /\ detectedSkill # ""
                 THEN <<FoundLine(sel.projectCandidates, detectedSkill)>>
                 ELSE IF Len(sel.projectCandidates) > 0
                 THEN <<MatchedLine(sel.projectCandidates)>>
                 ELSE <<>>)
             \o (IF /\ hasDashboardProjects
                    /\ TotalDashboardPages(d) > 0
                    /\ (Includes(lowerQuestion, "dashboard")
                           \/ Includes(lowerQuestion, "power bi"))
                 THEN <<"Searching " \o ToString(TotalDashboardPages(d)) \o " dashboard"
                           \o Plural(TotalDashboardPages(d)) \o " across the portfolio...">>
                 ELSE <<>>)
             \o (IF /\ (detectedSkill # "" \/ Includes(lowerQuestion, "skill"))
                    /\ TotalSkills(d) > 0
                    /\ PublishedProjects(d) > 0
                 THEN <<"Scanning " \o ToString(TotalSkills(d)) \o " skill"
                           \o Plural(TotalSkills(d)) \o " across "
                           \o ToString(PublishedProjects(d)) \o " published project"
                           \o Plural(PublishedProjects(d)) \o "...">>
                 ELSE <<>>)
             \o (IF Len(prof.matchedCounts) > 1
                 THEN <<"Top matches: "
                           \o Join([i \in 1..Min(3, Len(prof.matchedCounts)) |->
                                      TopMatch(prof.matchedProjects[i].slug,
                                               prof.matchedCounts[i])],
                                   ", ")
                           \o ".">>
                 ELSE <<>>)
        ELSE <<>>

\* sourcesUsed of the retrieval
SourcesUsed(found, sel, prof) ==
    (IF found.skillFirstMatch THEN <<"db:skill_first">>
     ELSE IF Len(sel.projectCandidates) > 0 THEN <<"db:trigram_search">> ELSE <<>>)
    \o (IF Len(prof.matchedProjects) > 0 THEN <<"db:mart_project_profile">> ELSE <<>>)
    \o (IF Len(prof.matchedCounts) > 0 THEN <<"db:fct_project_counts">> ELSE <<>>)

\* the end of the retrieval: the answers sent without the generator, or the
\* trace and the payload handed to it
RetrievalAnswer(d, intent, detectedSkill, found, sel, prof, trace) ==
    LET sourcesUsed == SourcesUsed(found, sel, prof)
        slugs == [i \in 1..Len(prof.matchedProjects) |-> prof.matchedProjects[i].slug]
        info == [retrieved |-> TRUE, detectedSkill |-> detectedSkill,
                 matchedSkills |-> found.matchedSkills,
                 projectCandidates |-> sel.projectCandidates,
                 finalProjectIds |-> sel.finalProjectIds,
                 trigram |-> found.trigram,
                 trigramSearched |-> ~found.skillFirstMatch,
                 derivedSearched |-> sel.derivedSearched,
                 discard |-> sel.discard]
        answered(send) == [done |-> TRUE, send |-> send, trace |-> <<>>,
                           payload |-> NoPayload, info |-> info]
        totalDashboards == TotalDashboardsForSkill(d, detectedSkill)
        entries == MatrixEntries(d, detectedSkill)
        hasDashboardProjects ==
            \E i \in 1..Len(prof.matchedCounts) : prof.matchedCounts[i].dashboard_pages > 0
        hasAnyProjects == Len(sel.finalProjectIds) > 0 \/ Len(prof.matchedProjects) > 0
    IN
    IF /\ Len(sel.finalProjectIds) > 0 /\ detectedSkill # "" /\ Len(prof.matchedCounts) > 0
       /\ totalDashboards >= DASHBOARDS_FOR_LINK
    THEN LET resumeContext ==
                 IF Len(entries) > 0 /\ entries[1].summary # ""
                 THEN entries[1].summary \o " "
                 ELSE IF IsFabricSkill(detectedSkill) THEN FabricContext \o " "
                 ELSE ""
             names == [i \in 1..Min(3, Len(prof.matchedProjects)) |->
                          prof.matchedProjects[i].name]
             projectContext ==
                 IF Len(names) > 0 THEN ", including projects like " \o Join(names, ", ")
                 ELSE ""
         IN  answered(Send(200, "dashboard", 0,
                 Body(resumeContext \o "This is demonstrated across "
                          \o ToString(totalDashboards) \o " dashboard" \o Plural(totalDashboards)
                          \o " in his portfolio" \o projectContext
                          \o ". You can explore these dashboards to see the work in action.",
                      <<detectedSkill>>,
                      <<Link("Power BI Dashboards", SiteUrl \o "/dashboards")>>,
                      <<>>, TRUE,
                      Append(trace, "Found " \o ToString(totalDashboards) \o " dashboard"
                                        \o Plural(totalDashboards) \o " linked to "
                                        \o detectedSkill \o "."),
                      Meta([intent |-> intent, hasSources |-> TRUE,
                            sources_used |-> IF Len(sourcesUsed) > 0 THEN sourcesUsed
                                             ELSE <<"db:skill_first">>,
                            matched_skill_name |-> detectedSkill,
                            matched_project_slugs |-> slugs]))))
    ELSE IF ~hasAnyProjects /\ ~hasDashboardProjects /\ detectedSkill # ""
            /\ IsFabricSkill(detectedSkill)
    THEN answered(Send(200, "fabric", 0,
             Body("Yes - " \o FabricContext
                      \o " Portfolio DB doesn't yet map this skill to a specific project. For detailed project links, visit the contact section.",
                  <<"Microsoft Fabric">>,
                  <<Link("Portfolio Site", SiteUrl), Link("Contact", SiteUrl \o "/contact")>>,
                  <<"DB project mappings">>, TRUE, Append(trace, NoLinksLine),
                  Meta([intent |-> intent, hasSources |-> TRUE,
                        sources_used |-> <<"fallback:canonical_skillsets">>,
                        matched_skill_name |-> detectedSkill]))))
    ELSE IF ~hasAnyProjects /\ ~hasDashboardProjects /\ detectedSkill # ""
            /\ Len(entries) > 0 /\ Len(entries[1].proof) > 0
    THEN answered(Send(200, "fallback", 0,
             Body("Yes - Ryan has " \o detectedSkill
                      \o " experience confirmed from canonical skillsets and portfolio evidence. Portfolio DB doesn't yet map this skill to a specific project. For detailed project links, visit the contact section.",
                  <<IF entries[1].skill # "" THEN entries[1].skill ELSE detectedSkill>>,
                  Append(Slice(entries[1].proof, 3), Link("Contact", SiteUrl \o "/contact")),
                  <<"DB project mappings">>, TRUE, Append(trace, NoLinksLine),
                  Meta([intent |-> intent, hasSources |-> TRUE,
                        sources_used |-> <<"fallback:canonical_skillsets">>,
                        matched_skill_name |-> detectedSkill]))))
    ELSE [done |-> FALSE, send |-> NoResp, trace |-> trace,
          payload |-> [present |-> TRUE,
                       sources_used |-> IF Len(sourcesUsed) > 0 THEN sourcesUsed
                                        ELSE <<"db:no_matches">>,
                       matched_skill_name |-> detectedSkill,
                       matched_project_slugs |-> slugs],
          info |-> info]

\* the try block of the retrieval for one question, step by step
Retrieve(d, question, intent, detectedSkill, rows, trigram) ==
    LET Traced(found, sel, prof) ==
            RetrievalAnswer(d, intent, detectedSkill, found, sel, prof,
                Slice(Dedupe(sel.lines
                          \o ProfileLines(d, toLowerCase(question), detectedSkill,
                                          found, sel, prof)),
                      TRACE_MAX_LINES))
        Selected(found, sel) == Traced(found, sel, MatchedProfiles(d, sel.finalProjectIds))
        Searched(found) == Selected(found, FinalSelection(d, question, detectedSkill, found))
    IN  Searched(ProjectSearch(d, question, detectedSkill, rows, trigram))

----------------------------------------------------------------------------
(* The page-context and the personality answers, from the store.           *)

\* the answer to a page-context question; failed: the query threw
PageAnswer(d, path, failed) ==
    LET rows == SelectSeq(StorePages(d), LAMBDA pg : pg.url = SiteUrl \o path)
        meta(sources) == Meta([intent |-> "PAGE_CONTEXT", hasSources |-> TRUE,
                               sources_used |-> sources])
    IN  IF failed
        THEN Send(200, "page", 0,
                  Body("You're on " \o path
                           \o ". Unable to query page details from the database.",
                       <<>>, <<>>, <<>>, FALSE, <<>>, meta(<<>>)))
        ELSE IF Len(rows) > 0
        THEN LET page == rows[1]
                 related == page.project_id # ""
                 project == ProjectById(d, page.project_id)
             IN  Send(200, "page", 0,
                      Body("You're on the " \o page.title \o " page (" \o page.page_type
                               \o ")."
                               \o (IF related
                                   THEN " This relates to the " \o project.name \o " project."
                                   ELSE ""),
                           <<>>,
                           <<Link(page.title, page.url)>>
                               \o (IF related
                                   THEN <<Link(project.name, "/data-projects/" \o project.slug)>>
                                   ELSE <<>>),
                           <<>>, FALSE, <<>>,
                           meta(<<"db:dim_pages", "db:fct_project_pages">>)))
        ELSE Send(200, "page", 0,
                  Body(PageUnmappedAnswer(path), <<>>, <<>>, <<>>, FALSE, <<>>, meta(<<>>)))

personalityKeywords ==
    <<"snowboarding", "snowboard", "skiing", "ski", "food", "foods", "movie", "movies",
      "drink", "drinks", "music", "sport", "sports", "travel",
      "favorite", "favourites", "favourite", "favorites",
      "hobby", "hobbies", "interest", "interests",
      "lord", "rings", "ring">>

\* c.toUpperCase() of one character
UpperOf(c) ==
    IF \E u \in DOMAIN LowerOfUpper : LowerOfUpper[u] = c
    THEN CHOOSE u \in DOMAIN LowerOfUpper : LowerOfUpper[u] = c
    ELSE c

\* field ilike '%word%'
ILike(field, word) == Includes(toLowerCase(field), word)

\* the rows of the personality query for the question
PersonalityItems(d, lowerQuestion) ==
    LET isSport == TestWord(lowerQuestion, {"sport", "sports", "ski", "skiing", "snowboard",
                                            "snowboarding", "athletic", "athletics"})
        isFavorite == Includes(lowerQuestion, "favorite") \/ Includes(lowerQuestion, "favourite")
        isFavoriteMovie == isFavorite /\ Includes(lowerQuestion, "movie")
        found == SelectSeq(personalityKeywords, LAMBDA kw : Includes(lowerQuestion, kw))
        mentioned == IF Len(found) > 0 THEN found[1] ELSE ""
        keep(it) ==
            IF isFavoriteMovie
            THEN it.category = "favorites"
                     /\ (ILike(it.subcategory, "movie") \/ ILike(it.value, "movie")
                            \/ ILike(it.value, "lord") \/ ILike(it.value, "ring"))
            ELSE IF isSport /\ mentioned = ""
            THEN ILike(it.value, "ski") \/ ILike(it.subcategory, "sport")
                     \/ ILike(it.subcategory, "snowboard")
            ELSE IF isSport
            THEN ILike(it.value, mentioned) \/ ILike(it.subcategory, mentioned)
            ELSE IF isFavorite /\ mentioned # ""
            THEN it.category = "favorites"
                     /\ (ILike(it.value, mentioned) \/ ILike(it.subcategory, mentioned))
            ELSE IF mentioned # ""
            THEN ILike(it.value, mentioned) \/ ILike(it.subcategory, mentioned)
            ELSE it.category \in {"favorites", "interests"}
    IN  [mentioned |-> mentioned, items |-> SelectSeq(StorePersonality(d), keep)]

\* the answer to a personality question; failed: the query threw
PersonalityAnswer(d, question, failed) ==
    LET q == PersonalityItems(d, toLowerCase(question))
        n == Len(q.items)
        meta(sources) == Meta([intent |-> "PERSONALITY", hasSources |-> TRUE,
                               sources_used |-> sources])
        used == <<"db:personality", "db:team_member_personality">>
    IN  IF failed
        THEN Send(200, "personality", 0,
                  Body("Unable to query personality data. Please ask about Ryan's professional skills and projects instead.",
                       <<>>, <<>>, <<>>, FALSE, <<>>, meta(<<>>)))
        ELSE IF n > 0
        THEN LET item == q.items[1]
                 lotr == ILike(item.value, "lord") /\ ILike(item.value, "ring")
             IN  Send(200, "personality", 0,
                      Body("Yes-Ryan has " \o item.value \o " listed as a "
                               \o item.subcategory \o " in his " \o item.category \o "."
                               \o (IF lotr
                                   THEN " He's built a fun dashboard called \"Over and Back Again: Tracking Steps\" that tracks your steps progress against Frodo's journey to Mordor. It's a lighthearted way to combine his love of the movies with data visualization."
                                   ELSE ""),
                           <<>>,
                           IF lotr
                           THEN <<Link("Over and Back Again: Tracking Steps",
                                       SiteUrl \o "/dashboards/over-and-back-again-tracking-steps")>>
                           ELSE <<>>,
                           <<>>, TRUE,
                           <<"Found " \o ToString(n) \o " matching personality attribute"
                                 \o Plural(n) \o "...">>,
                           meta(used)))
        ELSE IF q.mentioned # ""
        THEN Send(200, "personality", 0,
                  Body(UpperOf(SubSeq(q.mentioned, 1, 1))
                           \o SubSeq(q.mentioned, 2, Len(q.mentioned))
                           \o " is not currently listed in Ryan's portfolio personality data.",
                       <<>>, <<>>, <<>>, FALSE, <<>>, meta(used)))
        ELSE Send(200, "personality", 0,
                  Body("Ryan has 0 public personality attributes across 0 category: .",
                       <<>>, <<>>, <<>>, TRUE, <<"Found 0 personality attribute...">>,
                       meta(used)))

----------------------------------------------------------------------------
(* The generator (the OpenAI chat completion) and what the handler makes   *)
(* of its output.                                                          *)

\* what the call may come to: an error or the 15 s timeout; content that is
\* no JSON; the JSON null; a JSON object, its fields of the asked type or not.
\* missing_info holds the strings of parsed.missing_info, missingLength is
\* parsed.missing_info.length (0 when the field has none)
Generated(answerIsString, answer, arrays, skills, links, missing) ==
    [kind |-> "object", answerIsString |-> answerIsString, answer |-> answer,
     arrays |-> arrays, skills_confirmed |-> skills, evidence_links |-> links,
     missing_info |-> missing,
     missingLength |-> IF arrays THEN Len(missing) ELSE 0]

\* "missing_info": [null]: an array whose one element is no string
NoStringMissing ==
    [Generated(TRUE, "Ryan builds dashboards and data pipelines.",
               TRUE, <<>>, <<>>, <<>>) EXCEPT !.missingLength = 1]

GeneratorOutputs ==
    {[kind |-> "error"], [kind |-> "unparseable"], [kind |-> "null"],
     Generated(TRUE, "Yes - Ryan has Python experience, shown in the NYC Risk Model project.",
               TRUE, <<"Python">>,
               <<Link("NYC Risk Model", SiteUrl \o "/data-projects/nyc-risk-model")>>, <<>>),
     Generated(TRUE, "Yes - Ryan has Snowflake experience from his data platform work.",
               TRUE, <<"Snowflake">>,
               <<Link("Data Projects", SiteUrl \o "/data-projects")>>, <<>>),
     Generated(TRUE, "I cannot confirm this from current portfolio evidence.",
               TRUE, <<>>, <<>>, <<"No matching project evidence">>),
     Generated(TRUE, "Ryan has worked on several data projects.",
               TRUE, <<>>, <<>>, <<"Specific tooling details">>),
     Generated(FALSE, "", FALSE, <<>>, <<>>, <<>>),
     NoStringMissing}

UncertaintyMarkers == {"cannot confirm", "not certain", "not sure"}

\* isCannotConfirm
HasMarker(text) == \E m \in UncertaintyMarkers : Includes(toLowerCase(text), m)

UncertaintyPrefix == "I'm not certain about this from the available evidence. "

\* the response after the generator call: trace and payload are what the
\* retrieval left (payload NoPayload: dbPayload is null)
Generate(intent, trace, payload, out) ==
    IF out.kind = "error"
    THEN Send(500, "timeout", 0,
              safeErrorResponse("The request took too long to process. Please try again with a shorter question.",
                                NoMeta, <<>>))
    ELSE IF out.kind = "unparseable"
    THEN Send(200, "unparsed", 0,
              safeErrorResponse("I had trouble formatting the response. Please try again.",
                                NoMeta, <<>>))
    ELSE IF out.kind = "null"
    THEN Send(500, "servererror", 0,
              safeErrorResponse("Server error while answering. Please try again.",
                                NoMeta, <<>>))
    ELSE
    LET answer0 == IF out.answerIsString THEN out.answer
                   ELSE "I couldn't generate a proper answer."
        hasMissing == out.missingLength > 0
        answerText == IF hasMissing /\ ~HasMarker(answer0)
                      THEN UncertaintyPrefix \o answer0 ELSE answer0
        finalTrace == IF HasMarker(answerText) THEN <<>> ELSE trace
    IN  Send(200, "generated", 0,
             Body(answerText,
                  IF out.arrays THEN out.skills_confirmed ELSE <<>>,
                  IF out.arrays THEN out.evidence_links ELSE <<>>,
                  IF out.arrays THEN out.missing_info ELSE <<>>,
                  TRUE, finalTrace,
                  Meta([intent |-> intent, hasSources |-> TRUE,
                        sources_used |-> IF payload.present THEN payload.sources_used
                                         ELSE <<"fallback:canonical_skillsets">>,
                        matched_skill_name |-> payload.matched_skill_name,
                        matched_project_slugs |-> payload.matched_project_slugs])))

----------------------------------------------------------------------------
(* Actions.                                                                *)

Tick ==
    /\ ticks < MaxTicks
    /\ \E d \in ClockSteps : now' = now + d
    /\ ticks' = ticks + 1
    /\ UNCHANGED <<rateMap, strikeMap, win, env, data, pc, cur, resp, twin, rank, hist, cls, race, parked>>

\* what the response carries besides the HTTP answer: the request, when it
\* arrived, the client's guard entries before and after it (ctx), the
\* collaborators called while handling it, what the retrieval found
Answered(send, ctx, calls, info) ==
    [status |-> send.status, kind |-> send.kind, retryAfter |-> send.retryAfter,
     body |-> send.body, req |-> ctx.req, at |-> ctx.at, pre |-> ctx.pre,
     post |-> ctx.post, calls |-> calls, info |-> info]

\* the window of the request that arrives at t, counted from the requests
\* alone: a window opens at the first request and at the first request after
\* the previous window's ten minutes
WindowAfter(w, t) ==
    IF w.n = 0 \/ t > w.start + RATE_WINDOW_MS
    THEN [start |-> t, n |-> 1]
    ELSE [start |-> w.start, n |-> w.n + 1]

\* a POST of a client whose lockout, if any, has run out reaches the limiter
\* of a handler whose module loaded
ReachesLimiterIn(e, sm, req, t) ==
    /\ ModuleLoads(e)
    /\ req.method = "POST"
    /\ (sm[req.client] = NoEntry \/ sm[req.client].lockedUntil = 0
            \/ t >= sm[req.client].lockedUntil)

ReachesLimiter(sm, req, t) == ReachesLimiterIn(env, sm, req, t)

\* Math.random() picks one of the Madison answers
RandomPicks(req) ==
    IF /\ QuestionOf(req.body) \in ValidQuestions
       /\ IntentOf(QuestionOf(req.body), req.body.hasPageContext) = "MADISON"
    THEN 1..Len(MadisonAnswers) ELSE {1}

\* the request with the guard entries of its client around the synchronous
\* prefix r of the handler
Context(req, r) ==
    [req |-> req, at |-> now,
     pre |-> [strike |-> strikeMap[req.client], rate |-> rateMap[req.client]],
     post |-> [strike |-> r.strikeMap[req.client], rate |-> r.rateMap[req.client]]]

MaxCount == 22

\* a request arrives and the handler runs up to its first await
Arrive(req, maxCount) ==
    /\ pc = "idle"
    /\ (rateMap[req.client] # NoEntry => rateMap[req.client].count < maxCount)
    /\ \E rnd \in RandomPicks(req) :
          LET r == SyncPrefix(rateMap, strikeMap, env, now, req, rnd)
          IN  /\ rateMap' = r.rateMap
              /\ strikeMap' = r.strikeMap
              /\ pc' = r.pc
              /\ IF r.done
                 THEN /\ resp' = Answered(r.send, Context(req, r), r.calls, NoInfo)
                      /\ cur' = NoCur
                 ELSE /\ resp' = NoResp
                      /\ cur' = [intent |-> r.intent, ctx |-> Context(req, r),
                                 calls |-> r.calls, trace |-> <<>>,
                                 payload |-> NoPayload, info |-> NoInfo]
              /\ race' = [NoRace EXCEPT !.sent = IF r.done THEN 1 ELSE 0,
                                        !.sentAt = now]
    /\ win' = IF ReachesLimiter(strikeMap, req, now)
              THEN [win EXCEPT ![req.client] = WindowAfter(@, now)]
              ELSE win
    /\ twin' = NoTwin
    /\ UNCHANGED <<now, ticks, env, data, rank, cls, parked>>

Receive(req, maxCount) == Arrive(req, maxCount) /\ UNCHANGED hist

\* the times of h that lie in the ten minutes up to t
Recent(h, t) == SelectSeq(h, LAMBDA x : x > t - RATE_WINDOW_MS)

\* the same, and the ghost history of the client records whether the request
\* passed the limiter
ReceiveCounted(req, maxCount) ==
    /\ Arrive(req, maxCount)
    /\ hist' = [hist EXCEPT ![req.client] =
                    IF ReachesLimiter(strikeMap, req, now) /\ resp'.status # 429
                    THEN Append(Recent(@, now), now)
                    ELSE Recent(@, now)]

\* one more response to the request, now
Sent(rc) == [rc EXCEPT !.sent = @ + 1, !.sentAt = now]

\* res.status(...).json(...) and return, for the request in flight
Reply(send, calls, info) ==
    /\ resp' = Answered(send, cur.ctx, calls, info)
    /\ cur' = NoCur
    /\ pc' = "idle"
    /\ UNCHANGED <<now, ticks, rateMap, strikeMap, win, env, data, twin, rank, hist, cls,
                   parked>>

\* the response to the request in flight is sent
Respond(send, calls, info) == Reply(send, calls, info) /\ race' = Sent(race)

\* the page query returns or throws
PagePhase ==
    /\ pc = "page"
    /\ \E failed \in BOOLEAN :
          Respond(PageAnswer(data, cur.ctx.req.body.path, failed),
                  cur.calls \cup {"database"}, NoInfo)

\* the personality query returns or throws
PersPhase ==
    /\ pc = "pers"
    /\ \E failed \in BOOLEAN :
          Respond(PersonalityAnswer(data, QuestionOf(cur.ctx.req.body), failed),
                  cur.calls \cup {"database"}, NoInfo)

\* "select 1 as ok" threw
DbDown ==
    Send(500, "dbdown", 0,
         Body("Database connection error. Please try again, or visit the contact section.",
              <<>>, <<>>, <<>>, TRUE, <<"DB connection failed">>, NoMeta))

\* what the store may answer to the queries of the retrieval for a question
StoreAnswers(d, question) ==
    UNION {{[detectedSkill |-> det, rows |-> rows, trigram |-> trigram] :
               rows \in Orderings(SkillFirstRows(d, det), SKILL_FIRST_LIMIT),
               trigram \in TrigramOutcomes} :
              det \in DetectedSkills(d, toLowerCase(question))}

RetrieveWith(d, question, intent, a) ==
    Retrieve(d, question, intent, a.detectedSkill, a.rows, a.trigram)

\* the retrieval: the sanity check fails; a query throws and the handler goes
\* on without the store; or the queries return
DbPhase ==
    /\ pc = "db"
    /\ \/ Respond(DbDown, cur.calls \cup {"database"}, NoInfo)
       \/ /\ pc' = "gen"
          /\ cur' = [cur EXCEPT !.calls = @ \cup {"database"}]
          /\ resp' = NoResp
          /\ UNCHANGED <<now, ticks, rateMap, strikeMap, win, env, data, twin, rank, hist, cls, race, parked>>
       \/ \E a \in StoreAnswers(data, QuestionOf(cur.ctx.req.body)) :
             LET r == RetrieveWith(data, QuestionOf(cur.ctx.req.body), cur.intent, a)
             IN  IF r.done
                 THEN Respond(r.send, cur.calls \cup {"database"}, r.info)
                 ELSE /\ pc' = "gen"
                      /\ cur' = [cur EXCEPT !.calls = @ \cup {"database"},
                                            !.trace = r.trace,
                                            !.payload = r.payload,
                                            !.info = r.info]
                      /\ resp' = NoResp
                      /\ UNCHANGED <<now, ticks, rateMap, strikeMap, win, env, data,
                                     twin, rank, hist, cls, race, parked>>

\* the generator call ends
GenPhase ==
    /\ pc = "gen"
    /\ \E out \in GeneratorOutputs :
          /\ Reply(Generate(cur.intent, cur.trace, cur.payload, out),
                   cur.calls \cup {"generator"}, cur.info)
          /\ race' = [Sent(race) EXCEPT !.out = out]

Init ==
    /\ now = 0
    /\ ticks = 0
    /\ rateMap = [c \in Clients |-> NoEntry]
    /\ strikeMap = [c \in Clients |-> NoEntry]
    /\ win = [c \in Clients |-> NoWindow]
    /\ env \in Envs
    /\ data = 1
    /\ pc = "idle"
    /\ cur = NoCur
    /\ resp = NoResp
    /\ twin = NoTwin
    /\ rank = NoRank
    /\ hist = NoHist
    /\ cls = NoCls
    /\ race = NoRace
    /\ parked = {}

Next ==
    \/ Tick
    \/ \E req \in GuardRequests : Receive(req, MaxCount)

Spec == Init /\ [][Next]_vars

----------------------------------------------------------------------------
(* The rate limiter over the passes of one client, each with its time.     *)

WindowRequests == {Request(HeadersA, "POST", Question("ok"))}

NextWindow ==
    \/ Tick
    \/ \E req \in WindowRequests : ReceiveCounted(req, MaxCount)

SpecWindow == Init /\ [][NextWindow]_vars

----------------------------------------------------------------------------
(* The guard with two clients: each comes with a history of requests, then *)
(* one request of either client is handled.                                *)

ClientA == getClientIp(HeadersA)

ClientB == getClientIp(HeadersB)

\* how many acknowledgements and, after them, how many abusive questions a
\* client has sent at time 0
HistoryCounts == {0, 19, 20, 21}

HistoryStrikes == {0, 2, 3}

HistoryOf(headers, k, s) ==
    [i \in 1..(k + s) |->
        Request(headers, "POST", IF i <= k THEN Question("ok") ELSE Question("i hate this"))]

\* the guard maps, and the windows counted from the requests, after the
\* handler has answered the requests at time 0
RECURSIVE Replay(_, _, _)
Replay(g, e, reqs) ==
    LET After(w, r) ==
            Replay([rateMap |-> r.rateMap, strikeMap |-> r.strikeMap, win |-> w],
                   e, Tail(reqs))
        Answer(w) == After(w, SyncPrefix(g.rateMap, g.strikeMap, e, 0, Head(reqs), 1))
    IN  IF reqs = <<>> THEN g
        ELSE IF ReachesLimiterIn(e, g.strikeMap, Head(reqs), 0)
        THEN Answer([g.win EXCEPT ![Head(reqs).client] = WindowAfter(@, 0)])
        ELSE Answer(g.win)

ClientsEnv == [apiKey |-> TRUE, hasDb |-> TRUE, dataFiles |-> TRUE]

ClientHistories ==
    {Replay([rateMap |-> [c \in Clients |-> NoEntry],
             strikeMap |-> [c \in Clients |-> NoEntry],
             win |-> [c \in Clients |-> NoWindow]],
            ClientsEnv, HistoryOf(HeadersA, h[1], h[2]) \o HistoryOf(HeadersB, h[3], h[4])) :
        h \in HistoryCounts \X HistoryStrikes \X HistoryCounts \X HistoryStrikes}

ClientRequests ==
    {Request(h, "POST", Question(q)) : h \in {HeadersA, HeadersB}, q \in {"ok", "i hate this"}}

InitClients ==
    /\ now = 0
    /\ ticks = 0
    /\ \E g \in ClientHistories :
          rateMap = g.rateMap /\ strikeMap = g.strikeMap /\ win = g.win
    /\ env = ClientsEnv
    /\ data = 1
    /\ pc = "idle"
    /\ cur = NoCur
    /\ resp = NoResp
    /\ twin = NoTwin
    /\ rank = NoRank
    /\ hist = NoHist
    /\ cls = NoCls
    /\ race = NoRace
    /\ parked = {}

\* more than the requests of the longest history
MaxClientCount == 25

\* the first request after the histories
ReceiveFirst(req) == resp = NoResp /\ Receive(req, MaxClientCount)

NextClients ==
    \/ Tick
    \/ \E req \in ClientRequests : ReceiveFirst(req)

SpecClients == InitClients /\ [][NextClients]_vars

----------------------------------------------------------------------------
(* The whole handler on the first request of a client, over the stores and *)
(* the configurations with and without DATABASE_URL.                       *)

RetrievalRequests == {Request(HeadersB, "POST", b) : b \in RetrievalBodies}

RetrievalEnvs ==
    {[apiKey |-> TRUE, hasDb |-> TRUE, dataFiles |-> TRUE],
     [apiKey |-> TRUE, hasDb |-> FALSE, dataFiles |-> TRUE],
     [apiKey |-> TRUE, hasDb |-> TRUE, dataFiles |-> FALSE]}

MaxRetrievalCount == 1

InitRetrieval ==
    /\ now = 0
    /\ ticks = 0
    /\ rateMap = [c \in Clients |-> NoEntry]
    /\ strikeMap = [c \in Clients |-> NoEntry]
    /\ win = [c \in Clients |-> NoWindow]
    /\ env \in RetrievalEnvs
    /\ data \in DataSets
    /\ pc = "idle"
    /\ cur = NoCur
    /\ resp = NoResp
    /\ twin = NoTwin
    /\ rank = NoRank
    /\ hist = NoHist
    /\ cls = NoCls
    /\ race = NoRace
    /\ parked = {}

NextRetrieval ==
    \/ \E req \in RetrievalRequests : Receive(req, MaxRetrievalCount)
    \/ PagePhase
    \/ PersPhase
    \/ DbPhase
    \/ GenPhase

SpecRetrieval == InitRetrieval /\ [][NextRetrieval]_vars

----------------------------------------------------------------------------
(* Properties of the guard, read off the last response.                    *)

Handled == resp.status # 0

PostHandled == Handled /\ resp.req.method = "POST"

\* the handler awaits the store or the generator for the request cur.ctx.req
InFlight == pc # "idle"

\* the client's lockout had not run out when the request arrived
PreLocked ==
    /\ resp.pre.strike # NoEntry
    /\ resp.pre.strike.lockedUntil # 0
    /\ resp.at < resp.pre.strike.lockedUntil

\* the client's lockout had run out when the request arrived
PreExpired ==
    /\ resp.pre.strike # NoEntry
    /\ resp.pre.strike.lockedUntil # 0
    /\ resp.at >= resp.pre.strike.lockedUntil

\* the window of the last request, and the milliseconds left in it
Window == win[resp.req.client]

Remaining == Window.start + RATE_WINDOW_MS - resp.at

\* the request is within the first twenty of its window
WithinLimit == Window.n <= RATE_MAX

\* C1 (as amended): of the POSTs a client that is not locked out sends inside
\* one rate window (opened by its first request and lasting up to and
\* including the 600000th millisecond after it) the first 20 pass the rate
\* limiter, and the 21st is answered 429 with a Retry-After of the remaining
\* time in whole seconds, rounded up but never less than 1, hence in 1..600.
C1_RateLimit ==
    (PostHandled /\ ~PreLocked) =>
        /\ WithinLimit => (resp.status # 429 /\ resp.kind # "rate")
        /\ Window.n = RATE_MAX + 1 =>
              /\ resp.status = 429
              /\ resp.retryAfter = Max(1, CeilDiv(Remaining, 1000))
              /\ resp.retryAfter >= 1
              /\ resp.retryAfter <= 600

\* C1 as claimed: the Retry-After of the 21st request equals the remaining
\* time rounded up to whole seconds and is greater than zero.
C1_AsClaimed ==
    (PostHandled /\ ~PreLocked) =>
        /\ WithinLimit => resp.status # 429
        /\ Window.n = RATE_MAX + 1 =>
              /\ resp.status = 429
              /\ resp.retryAfter = CeilDiv(Remaining, 1000)
              /\ resp.retryAfter > 0
              /\ resp.retryAfter <= 600

\* the 21st request of a window arrives at the window's last instant
C1_Witness ==
    /\ PostHandled /\ ~PreLocked
    /\ Window.n = RATE_MAX + 1
    /\ Remaining = 0
    /\ resp.status = 429
    /\ resp.retryAfter = 1

\* what the strike cycle does to one handled request, for the requests that P
\* selects
LockoutCycle(P) ==
    /\ (Handled /\ resp.kind = "strike") =>
          /\ resp.post.strike.strikes =
                (IF resp.pre.strike = NoEntry \/ PreExpired
                 THEN 0 ELSE resp.pre.strike.strikes) + 1
          /\ resp.post.strike.strikes <= 3
          /\ resp.post.strike.strikes = 3 =>
                /\ resp.post.strike.lockedUntil = resp.at + LOCKOUT_DURATION_MS
                /\ resp.body.meta.locked_until = resp.at + LOCKOUT_DURATION_MS
          /\ resp.post.strike.strikes < 3 => resp.post.strike.lockedUntil = 0
    /\ (P /\ PreLocked) =>
          /\ resp.kind = "locked"
          /\ resp.body.answer = LockedMessage(resp.pre.strike.lockedUntil, resp.at)
          /\ resp.pre.strike.strikes = 3
          /\ resp.post.strike = resp.pre.strike
    /\ (P /\ PreExpired) =>
          /\ resp.kind # "locked"
          /\ resp.post.strike.strikes = (IF resp.kind = "strike" THEN 1 ELSE 0)
          /\ resp.post.strike.lockedUntil = 0

\* C2 (as amended): the third strike sets a lockout that expires 15 minutes
\* after it; every POST request of the client before the expiry is answered
\* with the lockout message and leaves the strike count at 3; the first POST
\* request at or after the expiry resets the count to 0 and is then handled
\* as a normal message.
C2_LockoutCycle == LockoutCycle(PostHandled)

\* C2 as claimed: every request of the client, whatever its method, is
\* answered with the lockout message before the expiry.
C2_AsClaimed == LockoutCycle(Handled)

\* a POST arrives at the very instant the lockout runs out and is moderated
\* as a normal message
C2_Witness ==
    /\ PostHandled /\ PreExpired
    /\ resp.at = resp.pre.strike.lockedUntil
    /\ resp.kind = "strike"
    /\ resp.post.strike.strikes = 1

\* C3: while a client's lockout has not expired, every POST of the client is
\* answered with the lockout message whatever its body holds, and nothing is
\* classified, moderated, retrieved or generated for it.
C3_LockedShortCircuit ==
    (PostHandled /\ PreLocked) =>
        /\ resp.status = 200
        /\ resp.kind = "locked"
        /\ resp.body.answer = LockedMessage(resp.pre.strike.lockedUntil, resp.at)
        /\ resp.body.meta.blocked
        /\ resp.calls = {}

\* a locked client sends an over-length question half a second into the lockout
C3_Witness ==
    /\ PostHandled /\ PreLocked
    /\ resp.req.body.question = LongQuestion
    /\ resp.at > resp.pre.strike.lastStrikeAt
    /\ resp.kind = "locked"

\* what the acknowledgement short-circuit returns
AckShortCircuit ==
    /\ resp.status = 200
    /\ resp.kind = "ack"
    /\ resp.body.answer = AckAnswer
    /\ resp.body.skills_confirmed = <<>>
    /\ resp.body.evidence_links = <<>>
    /\ resp.body.missing_info = <<>>
    /\ resp.body.meta.fast_path
    /\ resp.calls \cap {"database", "generator"} = {}

Invalid(body) ==
    \/ body.qtype # "string"
    \/ Trim(body.question) = ""
    \/ Len(Trim(body.question)) > MAX_QUESTION_CHARS

InvalidBodies == {b \in AllBodies : Invalid(b)}

Moderated(sev) ==
    /\ PostHandled
    /\ "moderation" \in resp.calls
    /\ ModerationOf(QuestionOf(resp.req.body)) = sev

HasBlocked == resp.body.meta.present /\ resp.body.meta.blocked

\* C11 (as amended): every lockout response and every refusal of a question
\* that content moderation rejected with severity 'strike' has HTTP status
\* 200 and carries meta.blocked = true; a refusal with severity 'warn' has
\* HTTP status 200 and carries no meta at all.
C11_Refusals ==
    /\ (PostHandled /\ PreLocked) => (resp.kind = "locked" /\ resp.status = 200 /\ HasBlocked)
    /\ Moderated("strike") => (resp.kind = "strike" /\ resp.status = 200 /\ HasBlocked)
    /\ Moderated("warn") =>
          (resp.kind = "warn" /\ resp.status = 200 /\ ~resp.body.meta.present)

\* C11 as claimed: the 'warn' refusal carries meta.blocked = true as well.
C11_AsClaimed ==
    /\ (PostHandled /\ PreLocked) => (resp.status = 200 /\ HasBlocked)
    /\ Moderated("strike") => (resp.status = 200 /\ HasBlocked)
    /\ Moderated("warn") => (resp.status = 200 /\ HasBlocked)

\* the third strike of a client: the refusal announces the lockout
C11_Witness ==
    /\ Moderated("strike")
    /\ resp.status = 200
    /\ resp.body.meta.blocked
    /\ resp.body.meta.strikes = StrikesToLock
    /\ resp.body.meta.locked_until = resp.at + LOCKOUT_DURATION_MS

\* the limiter's entry of the client, as the request found it, is in its
\* window and has counted twenty requests or more
OverLimit ==
    /\ resp.pre.rate # NoEntry
    /\ resp.at <= resp.pre.rate.resetAt
    /\ resp.pre.rate.count >= RATE_MAX

\* the milliseconds left of the limiter's window when the request arrived
WindowLeft == resp.pre.rate.resetAt - resp.at

Passes == hist[resp.req.client]

Alone(entry) == [c \in Clients |-> IF c = resp.req.client THEN entry ELSE NoEntry]

\* the handler answers the last request in the same way, and leaves the same
\* entries for its client, when no other client has an entry
DecidedAlone ==
    Handled =>
        \E rnd \in RandomPicks(resp.req) :
            LET Same(r) ==
                    /\ r.done
                    /\ r.send.status = resp.status
                    /\ r.send.kind = resp.kind
                    /\ r.send.retryAfter = resp.retryAfter
                    /\ r.send.body = resp.body
                    /\ r.rateMap[resp.req.client] = resp.post.rate
                    /\ r.strikeMap[resp.req.client] = resp.post.strike
            IN  Same(SyncPrefix(Alone(resp.pre.rate), Alone(resp.pre.strike), env,
                                resp.at, resp.req, rnd))

\* a step changes the guard entries of the client whose request it handles,
\* and of no other client
OwnEntriesOnly ==
    \A c \in Clients :
        (rateMap'[c] # rateMap[c] \/ strikeMap'[c] # strikeMap[c]) =>
            /\ resp'.status # 0
            /\ resp'.req.client = c
            /\ resp'.at = now
            /\ resp'.pre = [strike |-> strikeMap[c], rate |-> rateMap[c]]
            /\ resp'.post = [strike |-> strikeMap'[c], rate |-> rateMap'[c]]

\* C18: rate, strike and lockout state are keyed by the client identifier:
\* handling a request changes the rate entry and the strike entry of the
\* request's client only, and the answer to a request, with the entries it
\* leaves, is the one the handler gives when no other client has any entry.
C18_ClientIsolation == []DecidedAlone /\ [][OwnEntriesOnly]_vars

\* a client's first request is acknowledged while the other client is locked
\* out
C18_Witness ==
    /\ Handled
    /\ resp.req.client = ClientB
    /\ resp.pre.rate = NoEntry
    /\ resp.status = 200
    /\ resp.kind = "ack"
    /\ strikeMap[ClientA] # NoEntry
    /\ StillLocked(strikeMap[ClientA], resp.at)

\* the strikes that count for a client at t: none without an entry, and none
\* once a lockout has run out
StrikesAt(entry, t) ==
    IF entry = NoEntry \/ (entry.lockedUntil # 0 /\ t >= entry.lockedUntil) THEN 0
    ELSE entry.strikes

\* the end of the client's lockout at t, 0 when the client is not locked out
LockAt(entry, t) ==
    IF entry = NoEntry \/ t >= entry.lockedUntil THEN 0 ELSE entry.lockedUntil

\* C22: a moderation rejection of severity 'strike' increments the strike
\* count of the client by exactly 1; a rejection of severity 'warn' leaves
\* the strike count and the lockout of the client as they were.
C22_StrikeAndWarn ==
    /\ Moderated("strike") =>
          /\ resp.post.strike # NoEntry
          /\ resp.post.strike.strikes = StrikesAt(resp.pre.strike, resp.at) + 1
    /\ Moderated("warn") =>
          /\ StrikesAt(resp.post.strike, resp.at) = StrikesAt(resp.pre.strike, resp.at)
          /\ LockAt(resp.post.strike, resp.at) = LockAt(resp.pre.strike, resp.at)
          /\ (PreExpired \/ resp.post.strike = resp.pre.strike)

\* an off-topic question of a client with two strikes
C22_Witness ==
    /\ Moderated("warn")
    /\ resp.pre.strike # NoEntry
    /\ resp.pre.strike.strikes = 2
    /\ resp.post.strike.strikes = 2
    /\ resp.post.strike.lockedUntil = 0

----------------------------------------------------------------------------
(* Properties of the answers, read off the last response of the whole      *)
(* handler.                                                                *)

\* the response was assembled from the generator's output
FromGenerator == Handled /\ resp.status = 200 /\ resp.kind = "generated"

\* the retrieval ran for the request and matched no skill and no project
ZeroMatches ==
    /\ resp.info.retrieved
    /\ resp.info.detectedSkill = ""
    /\ resp.info.matchedSkills = <<>>
    /\ resp.info.projectCandidates = <<>>
    /\ resp.info.finalProjectIds = <<>>

\* C4: for every question for which the retrieval matches zero skills and
\* zero projects, the response assembled from the generator's output has an
\* empty evidence_links array, an empty skills_confirmed array and a
\* non-empty missing_info array, whatever the generator returned.
C4_ZeroMatchesNoEvidence ==
    (FromGenerator /\ ZeroMatches) =>
        /\ resp.body.evidence_links = <<>>
        /\ resp.body.skills_confirmed = <<>>
        /\ resp.body.missing_info # <<>>

\* the skills of the store with confidence expert or strong that are linked
\* to at least one published project
EvidencedSkills(d) ==
    {sk \in Range(StoreSkills(d)) :
        /\ sk.confidence \in {"expert", "strong"}
        /\ \E f \in StoreFacts(d) :
              /\ f.skill_id = sk.skill_id
              /\ f.project_id \in ProjectIds(d)
              /\ ProjectById(d, f.project_id).status = "published"}

\* the response answers the question: from the generator's output or, without
\* the generator, from the dashboards or the canonical skillsets
Answering ==
    Handled /\ resp.status = 200
        /\ resp.kind \in {"generated", "dashboard", "fabric", "fallback"}

\* the retrieval detected the skill sk in the question of the last response
Detected(sk) ==
    /\ sk \in SkillMatches(data, toLowerCase(QuestionOf(resp.req.body)))
    /\ resp.info.retrieved
    /\ resp.info.detectedSkill = sk.name

\* C5: for every skill S of the store (confidence expert or strong) linked to
\* at least one published project, the response to a question that contains
\* S's name or one of its aliases, in which the retrieval detected S and
\* which answers the question, has S in skills_confirmed and at least one
\* entry in evidence_links.
C5_SkillConfirmed ==
    \A sk \in EvidencedSkills(data) :
        (Answering /\ Detected(sk)) =>
            /\ sk.name \in Range(resp.body.skills_confirmed)
            /\ Len(resp.body.evidence_links) >= 1

\* C8: every response, on every path of the handler, whose answer text
\* contains "cannot confirm", "not certain" or "not sure" has an empty trace
\* (a response without a trace property counts as empty).
C8_TraceSuppression ==
    (Handled /\ HasMarker(resp.body.answer)) => resp.body.trace = <<>>

\* the slugs of the projects of the store that are published
PublishedSlugs(d) ==
    {StoreProjects(d)[i].slug : i \in {j \in 1..Len(StoreProjects(d)) :
                                          StoreProjects(d)[j].status = "published"}}

\* C14: every project named in meta.matched_project_slugs of a response, or
\* in the evidence bundle that is handed to the generator, has status =
\* published in the store.
C14_PublishedOnly ==
    /\ (Handled /\ resp.body.meta.present) =>
          Range(resp.body.meta.matched_project_slugs) \subseteq PublishedSlugs(data)
    /\ pc = "gen" =>
          Range(cur.payload.matched_project_slugs) \subseteq PublishedSlugs(data)

\* C15: a request whose handling reached the store is never answered with
\* HTTP 500 before the generator is called, whichever query failed.
C15_DatabaseFailure ==
    (Handled /\ "database" \in resp.calls /\ "generator" \notin resp.calls) =>
        resp.status # 500

\* C16: on a deployment without DATABASE_URL the endpoint does not fail: a
\* request is answered by the handler, which leaves the store alone.
C16_NoDatabaseUrl ==
    (Handled /\ ~env.hasDb) =>
        /\ resp.kind # "crash"
        /\ "classifyIntent" \in resp.calls
        /\ "database" \notin resp.calls

\* the intents whose questions the handler passes to the moderator
ModeratedIntents == {"PROFESSIONAL", "FAST_PATH_PROFESSIONAL"}

\* what the handler did with a classified request: req the request, calls
\* the collaborators called so far, pre and post the strike entry of the
\* client around it; "only" are the intents said to be moderated
ModerationRule(only, req, calls, pre, post) ==
    LET Of(intent, question) ==
            /\ "moderation" \in calls => intent \in only
            /\ intent \notin ModeratedIntents =>
                  ("moderation" \notin calls /\ post = pre)
            /\ (intent \in ModeratedIntents /\ env.apiKey) =>
                  /\ "moderation" \in calls
                  /\ checkContentModeration(question) = "strike" =>
                        (post # NoEntry /\ post.strikes >= 1 /\ post # pre)
    IN  "classifyIntent" \in calls =>
            Of(IntentOf(QuestionOf(req.body), req.body.hasPageContext), QuestionOf(req.body))

\* C20 (as amended): content moderation runs for the default professional
\* intent and for the fast-path professional intent, whose questions reach the
\* moderator before the fast-path answer is looked up and add a strike when
\* they are rejected; a question classified as acknowledgement, page-context,
\* personality, self-identification, work-style or personal-refusal is never
\* passed to the moderator and never adds a strike.
C20_Moderation ==
    /\ Handled => ModerationRule(ModeratedIntents, resp.req, resp.calls,
                                 resp.pre.strike, resp.post.strike)
    /\ InFlight => ModerationRule(ModeratedIntents, cur.ctx.req, cur.calls,
                                  cur.ctx.pre.strike, cur.ctx.post.strike)

\* C20 as claimed: only questions of the default professional intent reach
\* the moderator.
C20_AsClaimed ==
    /\ Handled => ModerationRule({"PROFESSIONAL"}, resp.req, resp.calls,
                                 resp.pre.strike, resp.post.strike)
    /\ InFlight => ModerationRule({"PROFESSIONAL"}, cur.ctx.req, cur.calls,
                                  cur.ctx.pre.strike, cur.ctx.post.strike)

\* a fast-path question is rejected by the moderator and adds a strike
C20_Witness ==
    /\ Handled
    /\ resp.req.body.question = FastPathAbuse
    /\ IntentOf(FastPathAbuse, FALSE) = "FAST_PATH_PROFESSIONAL"
    /\ "moderation" \in resp.calls
    /\ resp.kind = "strike"
    /\ resp.pre.strike = NoEntry
    /\ resp.post.strike.strikes = 1

\* the intents that are answered before the moderation step
CannedIntents ==
    {"ACKNOWLEDGEMENT", "PAGE_CONTEXT", "PERSONALITY", "MADISON", "WORK_STYLE", "PERSONAL"}

\* the request req, classified, with the collaborators called for it so far:
\* no generator call for the intents of "never"; a fast-path question that has
\* a fast-path answer and passes the moderation gets that answer
GeneratorRule(never, req, calls, kind, answered) ==
    LET Of(intent, question) ==
            /\ intent \in never => "generator" \notin calls
            /\ (/\ answered
                /\ intent = "FAST_PATH_PROFESSIONAL"
                /\ getFastPathResponse(question) # NoBody
                /\ env.apiKey /\ env.dataFiles
                /\ checkContentModeration(question) = "allowed"
                /\ ~AkuvoOf(question)) =>
                  (kind = "fastpath" /\ "generator" \notin calls /\ "database" \notin calls)
    IN  "classifyIntent" \in calls =>
            Of(IntentOf(QuestionOf(req.body), req.body.hasPageContext), QuestionOf(req.body))

\* C21 (as amended): no request classified as acknowledgement, page-context,
\* personality, self-identification, work-style or personal-refusal ever
\* reaches the external generator call; a fast-path professional question is
\* answered by a canned response when getFastPathResponse has one for it, and
\* otherwise goes through the retrieval to the generator like a question of
\* the default intent.
C21_Deterministic ==
    /\ Handled => GeneratorRule(CannedIntents, resp.req, resp.calls, resp.kind, TRUE)
    /\ InFlight =>
          /\ GeneratorRule(CannedIntents, cur.ctx.req, cur.calls, "", FALSE)
          /\ pc \in {"db", "gen"} => cur.intent \notin CannedIntents

\* C21 as claimed: a fast-path professional question never reaches the
\* generator either.
C21_AsClaimed ==
    /\ Handled => GeneratorRule(CannedIntents \cup {"FAST_PATH_PROFESSIONAL"},
                                resp.req, resp.calls, resp.kind, TRUE)
    /\ InFlight =>
          /\ GeneratorRule(CannedIntents \cup {"FAST_PATH_PROFESSIONAL"},
                           cur.ctx.req, cur.calls, "", FALSE)
          /\ pc \in {"db", "gen"} =>
                cur.intent \notin CannedIntents \cup {"FAST_PATH_PROFESSIONAL"}

\* a fast-path question without a fast-path answer is answered from the
\* generator's output
C21_Witness ==
    /\ Handled
    /\ IntentOf(QuestionOf(resp.req.body), resp.req.body.hasPageContext)
          = "FAST_PATH_PROFESSIONAL"
    /\ getFastPathResponse(QuestionOf(resp.req.body)) = NoBody
    /\ "generator" \in resp.calls
    /\ resp.kind = "generated"

SelfIdentifications == {"madison larocca", "madison avery", "this is madison"}

\* the question contains a self-identification phrase of the correspondent
SelfIdentified(question) ==
    \E phrase \in SelfIdentifications : Includes(toLowerCase(question), phrase)

\* a classified request with a self-identification phrase: the moderator
\* allows its question, it is not refused and the strike entry of its client
\* stays as it was
AllowListed(req, calls, kind, pre, post) ==
    ("classifyIntent" \in calls /\ SelfIdentified(QuestionOf(req.body))) =>
        /\ checkContentModeration(QuestionOf(req.body)) = "allowed"
        /\ kind \notin {"strike", "warn"}
        /\ post = pre

\* C23: a question that contains the self-identification phrase of the known
\* correspondent is never rejected by moderation and never adds a strike,
\* whatever else it contains.
C23_AllowList ==
    /\ Handled => AllowListed(resp.req, resp.calls, resp.kind,
                              resp.pre.strike, resp.post.strike)
    /\ InFlight => AllowListed(cur.ctx.req, cur.calls, "",
                               cur.ctx.pre.strike, cur.ctx.post.strike)

\* the self-identification phrase with a harassment term gets the answer for
\* the correspondent
C23_Witness ==
    /\ Handled
    /\ resp.req.body.question = MadisonAbuse
    /\ AnyPattern(MadisonAbuse, HarassmentPatterns)
    /\ resp.status = 200
    /\ resp.kind = "madison"
    /\ resp.post.strike = NoEntry

\* what the searches and the final selection give for the question when the
\* skill-first query returns no row and pg_trgm answers info.trigram
AsIfNothingFound(d, question, info) ==
    FinalSelection(d, question, info.detectedSkill,
                   ProjectSearch(d, question, info.detectedSkill, <<>>, info.trigram))

\* after the discard of the meta project the fuzzy project search has run and
\* the candidates and the selected projects are those of a retrieval whose
\* skill-first query found nothing
FuzzyAfterDiscard(d, question, info) ==
    (info.retrieved /\ info.discard) =>
        /\ info.trigramSearched
        /\ info.projectCandidates = AsIfNothingFound(d, question, info).projectCandidates
        /\ info.finalProjectIds = AsIfNothingFound(d, question, info).finalProjectIds

\* C24: when the skill-first candidates are the meta project alone, the
\* question is not about the assistant and the skill is not on the
\* self-reference allow-list, the candidates are discarded and the fuzzy
\* (trigram) project search is then executed exactly as if the skill-first
\* lookup had found nothing.
C24_OnlyMetaDiscard ==
    /\ Handled => FuzzyAfterDiscard(data, QuestionOf(resp.req.body), resp.info)
    /\ InFlight => FuzzyAfterDiscard(data, QuestionOf(cur.ctx.req.body), cur.info)

\* the facts that link the project to one of the skills
MatchedFacts(d, id, skillIds) ==
    {f \in StoreFacts(d) : f.project_id = id /\ f.skill_id \in skillIds}

\* the project a comes no later than the project b: more matched skills or,
\* with as many, no smaller sum of proof weights
NoLater(d, a, b, skillIds) ==
    \/ Cardinality(MatchedFacts(d, a, skillIds)) > Cardinality(MatchedFacts(d, b, skillIds))
    \/ /\ Cardinality(MatchedFacts(d, a, skillIds)) = Cardinality(MatchedFacts(d, b, skillIds))
       /\ SumProofWeights(MatchedFacts(d, a, skillIds))
              >= SumProofWeights(MatchedFacts(d, b, skillIds))

\* ids are the first projects, three at most, of those linked to the skills,
\* in the order of NoLater
DerivedFrom(d, ids, skillIds) ==
    LET linked == {f.project_id : f \in {x \in StoreFacts(d) : x.skill_id \in skillIds}}
    IN  /\ Len(ids) = Min(DERIVED_LIMIT, Cardinality(linked))
        /\ Range(ids) \subseteq linked
        /\ \A i, j \in 1..Len(ids) : i < j =>
               ids[i] # ids[j] /\ NoLater(d, ids[i], ids[j], skillIds)
        /\ \A i \in 1..Len(ids) : \A id \in linked \ Range(ids) :
               NoLater(d, ids[i], id, skillIds)

\* the retrieval was left without a project candidate and had matched skills
NoCandidateButSkills(info) ==
    /\ info.retrieved
    /\ info.projectCandidates = <<>>
    /\ info.matchedSkills # <<>>

SkillDerived(d, info) ==
    NoCandidateButSkills(info) =>
        /\ info.derivedSearched
        /\ DerivedFrom(d, info.finalProjectIds, Range(info.matchedSkills))

\* C25: whenever the project stages leave no project candidate for the final
\* selection, the only-meta discard included, and the skill search matched at
\* least one skill, the projects are derived from the project-skill facts of
\* those skills, ordered by the count of matched skills and then by the sum
\* of the proof weights, three at most.
C25_SkillDerived ==
    /\ Handled => SkillDerived(data, resp.info)
    /\ InFlight => SkillDerived(data, cur.info)

\* the skills whose name occurs in the question
NameMatched(d, lowerQuestion) ==
    {sk \in Range(StoreSkills(d)) : Includes(lowerQuestion, toLowerCase(sk.name))}

\* the texts of the skill, name or alias, that occur in the question
MatchedTexts(sk, lowerQuestion) ==
    {t \in {toLowerCase(sk.name)} \cup {toLowerCase(a) : a \in sk.aliases} :
        Includes(lowerQuestion, t)}

\* the length of the longest text of the skill that occurs in the question
MatchedLength(sk, lowerQuestion) ==
    LET lengths == {Len(t) : t \in MatchedTexts(sk, lowerQuestion)}
    IN  CHOOSE n \in lengths : \A m \in lengths : n >= m

\* the names of the skills matched by name or, when there is none, by an alias
\* only, whose matched text is the longest
PreferredSkills(d, lowerQuestion) ==
    LET preferred == IF NameMatched(d, lowerQuestion) # {}
                     THEN NameMatched(d, lowerQuestion)
                     ELSE SkillMatches(d, lowerQuestion)
    IN  {sk.name : sk \in {x \in preferred : \A y \in preferred :
            MatchedLength(x, lowerQuestion) >= MatchedLength(y, lowerQuestion)}}

\* the names the hand-written expansions for fabric and dbt may give
ExpansionNames(d) ==
    {sk.name : sk \in FuzzyMatches(d, "fabric") \cup FuzzyMatches(d, "dbt")}

DetectedAsClaimed(d, lowerQuestion, info) ==
    info.retrieved =>
        IF SkillMatches(d, lowerQuestion) # {}
        THEN info.detectedSkill \in PreferredSkills(d, lowerQuestion)
        ELSE info.detectedSkill \in ExpansionNames(d) \cup {""}

\* C26: among the skills whose name or alias occurs in the lower-cased
\* question, the detected skill is one matched by its name in preference to
\* one matched by an alias only and, among equally preferred ones, the one
\* with the longest matched text; the expansions for fabric and dbt run
\* only when this finds no skill.
C26_SkillDetection ==
    /\ Handled => DetectedAsClaimed(data, toLowerCase(QuestionOf(resp.req.body)), resp.info)
    /\ InFlight => DetectedAsClaimed(data, toLowerCase(QuestionOf(cur.ctx.req.body)),
                                     cur.info)

\* the dashboard pages of the projects that the facts link to the skill
DashboardsLinkedTo(d, skillName) ==
    {pg \in Range(StorePages(d)) :
        /\ pg.page_type = "dashboard"
        /\ \E f \in StoreFacts(d), sk \in Range(StoreSkills(d)) :
              /\ toLowerCase(sk.name) = toLowerCase(skillName)
              /\ f.skill_id = sk.skill_id
              /\ f.project_id = pg.project_id}

\* the retrieval detected a skill with three or more dashboards
DenseSkill(d, info) ==
    /\ info.retrieved
    /\ info.detectedSkill # ""
    /\ Cardinality(DashboardsLinkedTo(d, info.detectedSkill)) >= 3

DashboardsIndex == Link("Power BI Dashboards", SiteUrl \o "/dashboards")

NoEvidence(info) ==
    /\ info.retrieved
    /\ info.detectedSkill # ""
    /\ info.finalProjectIds = <<>>

\* the caveat that the store maps the skill to no project
Caveated(body) ==
    /\ body.missing_info # <<>>
    /\ "fallback:canonical_skillsets" \in Range(body.meta.sources_used)

\* C28: whenever a skill was detected but no project and no dashboard
\* resulted, the response carries the caveat that the store lacks a project
\* mapping (missing_info is not empty and meta.sources_used names the
\* fallback source): no such request ends in a response that confirms the
\* skill without the caveat.
C28_NoEvidenceCaveat ==
    (/\ Answering
     /\ NoEvidence(resp.info)
     /\ resp.info.detectedSkill \in Range(resp.body.skills_confirmed)) =>
        Caveated(resp.body)

\* no line twice and no more lines than the cap
TraceBounded(trace) ==
    /\ Len(trace) <= TRACE_MAX_LINES
    /\ \A i, j \in 1..Len(trace) : i # j => trace[i] # trace[j]

\* C29: in every response the trace has no two identical lines and at most
\* four lines, on every path that returns a trace: the generator's, the
\* dashboards short-circuit and the no-evidence fallback.
C29_TraceBound ==
    Handled => TraceBounded(resp.body.trace)

----------------------------------------------------------------------------
(* rankProjects on its own: the inputs are drawn, the function is applied. *)

\* proof weights of the dashboard candidate (0: null) and of the meta project
DashboardWeights == {0, 1, 4, 5}

MetaWeights == {1, 5}

\* skills_count of the dashboard candidate and of the meta project
DashboardSkillCounts == {0, 6}

MetaSkillCounts == {10, 270}

RankOrders == {<<"d", "m">>, <<"m", "d">>, <<"m", "p", "d">>}

RankSkills == {"Power BI", "Python", "PostgreSQL", "dbt"}

RankQuestions ==
    {"what projects prove power bi skills",
     "how was the ryagent chatbot built",
     "does ryan use dbt with power bi",
     "has ryan used postgres"}

RankInputs ==
    {[called |-> FALSE,
      candidates |-> [i \in 1..Len(o) |->
          IF o[i] = "d" THEN Candidate("d", "sales-dashboard", "Sales Dashboard", pwD)
          ELSE IF o[i] = "m" THEN Candidate("m", MetaSlug, "RyAgent", pwM)
          ELSE Candidate("p", "nyc-risk-model", "NYC Risk Model", 3)],
      countsMap |-> [id \in {"d", "m", "p"} |->
          IF id = "d"
          THEN [dashboard_pages |-> 2, project_pages |-> 0, skills_count |-> scD]
          ELSE IF id = "m"
          THEN [dashboard_pages |-> 0, project_pages |-> 1, skills_count |-> scM]
          ELSE [dashboard_pages |-> 0, project_pages |-> 1, skills_count |-> 4]],
      skill |-> sk, question |-> q, ranked |-> <<>>] :
        o \in RankOrders, pwD \in DashboardWeights, pwM \in MetaWeights,
        scD \in DashboardSkillCounts, scM \in MetaSkillCounts,
        sk \in RankSkills, q \in RankQuestions}

InitRank ==
    /\ now = 0
    /\ ticks = 0
    /\ rateMap = [c \in Clients |-> NoEntry]
    /\ strikeMap = [c \in Clients |-> NoEntry]
    /\ win = [c \in Clients |-> NoWindow]
    /\ env = [apiKey |-> TRUE, hasDb |-> TRUE, dataFiles |-> TRUE]
    /\ data = 1
    /\ pc = "idle"
    /\ cur = NoCur
    /\ resp = NoResp
    /\ twin = NoTwin
    /\ rank \in RankInputs
    /\ hist = NoHist
    /\ cls = NoCls
    /\ race = NoRace
    /\ parked = {}

RankStep ==
    /\ ~rank.called
    /\ rank' = [rank EXCEPT
                  !.called = TRUE,
                  !.ranked = rankProjects(rank.candidates, rank.countsMap,
                                          rank.skill, rank.question)]
    /\ UNCHANGED <<now, ticks, rateMap, strikeMap, win, env, data, pc, cur, resp, twin,
                   hist, cls, race, parked>>

NextRank == RankStep

SpecRank == InitRank /\ [][NextRank]_vars

\* the dashboard-category entries and the meta entries of the ranking
IsDashboardEntry(r) ==
    categorizeProject(r.slug, CountsOf(rank.countsMap, r.project_id)) = "dashboard"

IsMetaEntry(r) == r.slug = MetaSlug

SkillsCountOf(r) == CountsOf(rank.countsMap, r.project_id).skills_count

\* every dashboard entry that P admits against a meta entry stands before it
DashboardsAboveMeta(P(_, _)) ==
    \A i, j \in 1..Len(rank.ranked) :
        (/\ IsDashboardEntry(rank.ranked[i])
         /\ IsMetaEntry(rank.ranked[j])
         /\ P(rank.ranked[i], rank.ranked[j])) => i < j

AnyPair(d, m) == TRUE

\* the meta project lists fewer than 260 skills more than the dashboard
CountsWithinPenalty(d, m) == SkillsCountOf(m) - SkillsCountOf(d) < 260

\* C7 (as amended): for a platform/BI skill and a question that is neither
\* about the assistant nor mentions dbt ("dbt", "data build tool"),
\* rankProjects places every dashboard-category candidate, whatever its
\* proof_weight, above the meta project 'ryagent' whenever the meta
\* project's skills_count exceeds the dashboard's by less than 260.
C7_DashboardAboveMeta ==
    (/\ rank.called
     /\ isPlatformSkill(rank.skill)
     /\ ~isAssistantQuestion(rank.question)
     /\ ~isDbtQuestion(rank.question)) => DashboardsAboveMeta(CountsWithinPenalty)

\* C7 as claimed: for every question that is not about the assistant and
\* every platform skill, every dashboard candidate ranks above the meta
\* project.
C7_AsClaimed ==
    (/\ rank.called
     /\ isPlatformSkill(rank.skill)
     /\ ~isAssistantQuestion(rank.question)) => DashboardsAboveMeta(AnyPair)

\* the example of the ranking: a dashboard (4 / 6) listed after the meta
\* project (5 / 10) comes out first
C7_Witness ==
    /\ rank.called
    /\ rank.skill = "Power BI"
    /\ rank.question = "what projects prove power bi skills"
    /\ Len(rank.candidates) = 2
    /\ rank.candidates[1].slug = MetaSlug /\ rank.candidates[1].proof_weight = 5
    /\ rank.candidates[2].proof_weight = 4
    /\ rank.countsMap["m"].skills_count = 10 /\ rank.countsMap["d"].skills_count = 6
    /\ rank.ranked[1].slug = "sales-dashboard"
    /\ rank.ranked[2].slug = MetaSlug

\* what the score of the entry holds beyond the category weight, the proof
\* weight and the skills count
Adjustment(r) ==
    r.rank_score
        - (CategoryWeight(categorizeProject(r.slug, CountsOf(rank.countsMap, r.project_id)),
                          isPlatformSkill(rank.skill))
             + ProofWeightOf(r) * 10 + SkillsCountOf(r))

\* the skill is one of those for which the final selection keeps the meta
\* project when it is the only candidate
SelfReferenceSkill(skill) ==
    \E ps \in RyagentIsProofSkills : Includes(toLowerCase(skill), ps)

STRONG_BONUS == 200

\* the adjustment of the meta entries of the ranking is what P gives
MetaAdjusted(P(_)) ==
    rank.called =>
        \A i \in 1..Len(rank.ranked) :
            IsMetaEntry(rank.ranked[i]) => P(Adjustment(rank.ranked[i]))

ByQuestion(adjustment) ==
    adjustment =
        (IF ~isAssistantQuestion(rank.question) /\ ~isDbtQuestion(rank.question)
         THEN (IF isPlatformSkill(rank.skill) THEN -200 ELSE -100)
         ELSE 0)
        + (IF isDbtQuestion(rank.question) THEN STRONG_BONUS ELSE 0)

BySkill(adjustment) ==
    /\ adjustment < 0 <=>
          (~isAssistantQuestion(rank.question) /\ ~SelfReferenceSkill(rank.skill))
    /\ SelfReferenceSkill(rank.skill) => adjustment = STRONG_BONUS

\* C30 (as amended): rankProjects applies the penalty (-200 for a platform
\* skill, -100 otherwise) to the meta project exactly when the question is
\* neither about the assistant nor mentions dbt ("dbt", "data build tool" as
\* words), and the bonus of 200 exactly when the question mentions dbt; the
\* matched skill decides only the size of the penalty, and the allow-list of
\* the only-meta discard is not consulted.
C30_MetaScoring == MetaAdjusted(ByQuestion)

\* C30 as claimed: the penalty is applied to the meta project exactly when
\* the question is not about the assistant and the matched skill is not on
\* the self-reference allow-list of the only-meta discard, and with a skill
\* on that list the meta project gets the strong bonus instead.
C30_AsClaimed == MetaAdjusted(BySkill)

\* the meta project ranked for PostgreSQL, a skill of the allow-list, and a
\* question without dbt: penalised, no bonus
C30_Witness ==
    /\ rank.called
    /\ rank.skill = "PostgreSQL"
    /\ SelfReferenceSkill(rank.skill)
    /\ rank.question = "has ryan used postgres"
    /\ \E i \in 1..Len(rank.ranked) :
          IsMetaEntry(rank.ranked[i]) /\ Adjustment(rank.ranked[i]) = -200

----------------------------------------------------------------------------
(* The same request handled twice from the same state: the store contents, *)
(* the guard state and what the store answers are the same for both; each  *)
(* call of the generator returns what it returns.                          *)

\* the handler as a function of the request and of what its collaborators
\* answer: rnd is Math.random()'s pick, fail is "sanity" (select 1 threw),
\* "query" (a later query threw) or "none", a is what the store answers to
\* the retrieval, out is what the generator returns
Handle(d, rm, sm, e, t, req, rnd, fail, a, out) ==
    LET question == QuestionOf(req.body)
        After(r) ==
            IF r.done THEN r.send
            ELSE IF r.pc = "page" THEN PageAnswer(d, req.body.path, fail # "none")
            ELSE IF r.pc = "pers" THEN PersonalityAnswer(d, question, fail # "none")
            ELSE IF r.pc = "gen" THEN Generate(r.intent, <<>>, NoPayload, out)
            ELSE IF fail = "sanity" THEN DbDown
            ELSE IF fail = "query" THEN Generate(r.intent, <<>>, NoPayload, out)
            ELSE LET Retrieved(rr) ==
                         IF rr.done THEN rr.send
                         ELSE Generate(r.intent, rr.trace, rr.payload, out)
                 IN  Retrieved(RetrieveWith(d, question, r.intent, a))
    IN  After(SyncPrefix(rm, sm, e, t, req, rnd))

StoreFailures == {"none", "sanity", "query"}

InitTwin ==
    /\ now = 0
    /\ ticks = 0
    /\ rateMap = [c \in Clients |-> NoEntry]
    /\ strikeMap = [c \in Clients |-> NoEntry]
    /\ win = [c \in Clients |-> NoWindow]
    /\ env \in RetrievalEnvs
    /\ data \in DataSets
    /\ pc = "idle"
    /\ cur = NoCur
    /\ resp = NoResp
    /\ twin = NoTwin
    /\ rank = NoRank
    /\ hist = NoHist
    /\ cls = NoCls
    /\ race = NoRace
    /\ parked = {}

\* two separate requests with the same question and no history: handled
\* are the responses over what the generator may return to one call
AskTwice(req) ==
    /\ ~twin.present
    /\ \E rnd \in RandomPicks(req), fail \in StoreFailures,
          a \in StoreAnswers(data, QuestionOf(req.body)) :
          LET handled == {Handle(data, rateMap, strikeMap, env, now, req,
                                 rnd, fail, a, out) : out \in GeneratorOutputs}
          IN  \E first \in handled, second \in handled :
                  twin' = [present |-> TRUE, req |-> req,
                           first |-> first, second |-> second]
    /\ UNCHANGED <<now, ticks, rateMap, strikeMap, win, env, data, pc, cur, resp, rank, hist, cls, race, parked>>

NextTwin == \E req \in RetrievalRequests : AskTwice(req)

SpecTwin == InitTwin /\ [][NextTwin]_vars

\* C9: two separate requests with the identical question and no history,
\* evaluated against the same store contents and guard state, that are both
\* answered from the generator's output carry identical skills_confirmed
\* sets and identical evidence_links sets.
C9_Idempotence ==
    (twin.present /\ twin.first.kind = "generated" /\ twin.second.kind = "generated") =>
        /\ Range(twin.first.body.skills_confirmed) = Range(twin.second.body.skills_confirmed)
        /\ Range(twin.first.body.evidence_links) = Range(twin.second.body.evidence_links)

----------------------------------------------------------------------------
(* classifyIntent on its own: the question and the page context are drawn, *)
(* the function is applied.                                                *)

\* one phrase for each category of patterns but the acknowledgements, whose
\* patterns match whole questions only, and one that is a page-context
\* question only when the widget sends the page along
ClassifyPhrases ==
    {"this is madison", "what page am i on", "which page shows it",
     "does ryan enjoy testing", "does ryan use python", "is ryan motivated",
     "tell me about his family"}

EnjoyTesting == "does Ryan enjoy testing?"

ClassifyQuestions ==
    ClassifyPhrases
        \cup {pair[1] \o ", " \o pair[2] :
                 pair \in {p \in ClassifyPhrases \X ClassifyPhrases : p[1] # p[2]}}
        \cup {"thanks", "Ok!", EnjoyTesting, "does ryan enjoy working with data",
              "tell me about his azure projects"}

ClassifyInputs ==
    {[called |-> FALSE, question |-> q, hasPageContext |-> h, intent |-> ""] :
        q \in ClassifyQuestions, h \in BOOLEAN}

InitClassify ==
    /\ now = 0
    /\ ticks = 0
    /\ rateMap = [c \in Clients |-> NoEntry]
    /\ strikeMap = [c \in Clients |-> NoEntry]
    /\ win = [c \in Clients |-> NoWindow]
    /\ env = [apiKey |-> TRUE, hasDb |-> TRUE, dataFiles |-> TRUE]
    /\ data = 1
    /\ pc = "idle"
    /\ cur = NoCur
    /\ resp = NoResp
    /\ twin = NoTwin
    /\ rank = NoRank
    /\ hist = NoHist
    /\ cls \in ClassifyInputs
    /\ race = NoRace
    /\ parked = {}

ClassifyStep ==
    /\ ~cls.called
    /\ cls' = [cls EXCEPT !.called = TRUE,
                          !.intent = classifyIntent(cls.question, cls.hasPageContext)]
    /\ UNCHANGED <<now, ticks, rateMap, strikeMap, win, env, data, pc, cur, resp, twin,
                   rank, hist, race, parked>>

NextClassify == ClassifyStep

SpecClassify == InitClassify /\ [][NextClassify]_vars

Intents ==
    {"ACKNOWLEDGEMENT", "PROFESSIONAL", "PERSONAL", "FAST_PATH_PROFESSIONAL", "MADISON",
     "WORK_STYLE", "PAGE_CONTEXT", "PERSONALITY"}

\* the question matches the patterns of the category
MatchesCategory(category, question, hasPageContext) ==
    LET Of(lower) ==
            CASE category = "PAGE_CONTEXT" -> IsPageContext(lower, hasPageContext)
              [] category = "PERSONALITY" -> IsPersonality(lower)
              [] category = "MADISON" -> IsMadison(lower)
              [] category = "ACKNOWLEDGEMENT" -> IsAcknowledgement(lower)
              [] category = "FAST_PATH_PROFESSIONAL" -> IsFastPath(lower, question)
              [] category = "WORK_STYLE" -> IsWorkStyle(lower)
              [] category = "PERSONAL" -> IsPersonal(lower)
    IN  Of(Trim(toLowerCase(question)))

\* the first category of the order whose patterns the question matches
FirstMatching(order, question, hasPageContext) ==
    LET Among(hits) ==
            IF hits = {} THEN "PROFESSIONAL"
            ELSE order[CHOOSE i \in hits : \A j \in hits : i <= j]
    IN  Among({i \in 1..Len(order) : MatchesCategory(order[i], question, hasPageContext)})

CodeOrder ==
    <<"PAGE_CONTEXT", "PERSONALITY", "MADISON", "ACKNOWLEDGEMENT", "FAST_PATH_PROFESSIONAL",
      "WORK_STYLE", "PERSONAL">>

ClaimedOrder ==
    <<"MADISON", "PAGE_CONTEXT", "PERSONALITY", "ACKNOWLEDGEMENT", "FAST_PATH_PROFESSIONAL",
      "WORK_STYLE", "PERSONAL">>

\* C17 (as amended): classifyIntent returns exactly one intent of the closed
\* set and evaluates its rules in the order page-context > personality >
\* self-identification > acknowledgement > fast-path professional >
\* work-style > personal > default: the result is the first category of this
\* order whose patterns the question matches, so that a question with a
\* self-identification phrase that also matches a page-context or a
\* personality pattern is classified as page-context or personality.
C17_Precedence ==
    cls.called =>
        /\ cls.intent \in Intents
        /\ cls.intent = FirstMatching(CodeOrder, cls.question, cls.hasPageContext)

\* C17 as claimed: self-identification comes first in the order.
C17_AsClaimed ==
    cls.called =>
        /\ cls.intent \in Intents
        /\ cls.intent = FirstMatching(ClaimedOrder, cls.question, cls.hasPageContext)

\* a question with a self-identification phrase and a page-context pattern
C17_Witness ==
    /\ cls.called
    /\ cls.question = "this is madison, what page am i on"
    /\ MatchesCategory("MADISON", cls.question, cls.hasPageContext)
    /\ cls.intent = "PAGE_CONTEXT"

ProfessionalIntents == {"PROFESSIONAL", "FAST_PATH_PROFESSIONAL", "WORK_STYLE"}

\* C19: a question that matches the enjoyment patterns of the personality
\* category and a fast-path or a work-style pattern, or that is "does Ryan
\* enjoy testing?", and that matches neither the page-context patterns nor
\* a self-identification phrase, is classified with a professional intent and
\* not as PERSONALITY.
C19_EnjoyTesting ==
    (/\ cls.called
     /\ MatchesCategory("PERSONALITY", cls.question, cls.hasPageContext)
     /\ \/ cls.question = EnjoyTesting
        \/ MatchesCategory("FAST_PATH_PROFESSIONAL", cls.question, cls.hasPageContext)
        \/ MatchesCategory("WORK_STYLE", cls.question, cls.hasPageContext)
     /\ ~MatchesCategory("PAGE_CONTEXT", cls.question, cls.hasPageContext)
     /\ ~MatchesCategory("MADISON", cls.question, cls.hasPageContext))
        => cls.intent \in ProfessionalIntents

----------------------------------------------------------------------------
(* The generator call in time: the call and its two timers, and the client *)
(* that may go away while the request is in flight.                        *)

GENERATOR_TIMEOUT_MS == 15000

\* a deadline twice as far
DeadlineDoubled(rc) == rc.genAt + 2 * GENERATOR_TIMEOUT_MS

\* when setTimeout(..., 15000) of the call fires
Deadline(rc) == rc.genAt + GENERATOR_TIMEOUT_MS

\* the clock step of the runs with the timers, and the latest arrival
RaceStep == 5000

MaxStartTime == 5000

MaxRaceCount == 1

RaceRequests ==
    {Request(HeadersB, "POST", Question(q)) :
        q \in {"ok", "what projects prove python skills",
               "tell me about quantum computing experience",
               "what projects prove power bi skills"}}

InitRace ==
    /\ now = 0
    /\ ticks = 0
    /\ rateMap = [c \in Clients |-> NoEntry]
    /\ strikeMap = [c \in Clients |-> NoEntry]
    /\ win = [c \in Clients |-> NoWindow]
    /\ env = [apiKey |-> TRUE, hasDb |-> TRUE, dataFiles |-> TRUE]
    /\ data = 1
    /\ pc = "idle"
    /\ cur = NoCur
    /\ resp = NoResp
    /\ twin = NoTwin
    /\ rank = NoRank
    /\ hist = NoHist
    /\ cls = NoCls
    /\ race = NoRace
    /\ parked = {}

\* a timer of the call is armed
TimerArmed == race.abortTimer \/ race.rejectTimer

\* time passes, up to the next timer of the call
RaceTick ==
    /\ IF TimerArmed THEN now < Deadline(race) ELSE now + RaceStep <= MaxStartTime
    /\ now' = IF TimerArmed /\ now + RaceStep > Deadline(race)
              THEN Deadline(race) ELSE now + RaceStep
    /\ UNCHANGED <<ticks, rateMap, strikeMap, win, env, data, pc, cur, resp, twin, rank,
                   hist, cls, race, parked>>

\* new AbortController(), setTimeout(() => controller.abort(), 15000) and the
\* Promise.race of the call with the timer that rejects
StartCall ==
    /\ pc = "gen"
    /\ race.call = "none"
    /\ race' = [race EXCEPT !.call = "pending", !.genAt = now,
                            !.abortTimer = TRUE, !.rejectTimer = TRUE]
    /\ UNCHANGED <<now, ticks, rateMap, strikeMap, win, env, data, pc, cur, resp, twin,
                   rank, hist, cls, parked>>

\* the call settles first, with a completion or an error: clearTimeout(timeout)
\* disarms the abort, the timer that rejects stays armed
CallSettles ==
    /\ pc = "gen"
    /\ race.call = "pending"
    /\ \E out \in GeneratorOutputs :
          /\ Reply(Generate(cur.intent, cur.trace, cur.payload, out),
                   cur.calls \cup {"generator"}, cur.info)
          /\ race' = [Sent(race) EXCEPT !.call = "settled", !.abortTimer = FALSE,
                                        !.out = out]

\* the timers fire first: controller.abort(), the race rejects, the catch
\* block answers
TimerFires ==
    /\ pc = "gen"
    /\ race.call = "pending"
    /\ now = Deadline(race)
    /\ Reply(Generate(cur.intent, cur.trace, cur.payload, [kind |-> "error"]),
             cur.calls \cup {"generator"}, cur.info)
    /\ race' = [Sent(race) EXCEPT !.call = "aborted", !.abortTimer = FALSE,
                                  !.rejectTimer = FALSE]

\* a late timer whose rejection reaches the catch block and sends once more
LateTimerReplies ==
    /\ race.call = "settled"
    /\ race.rejectTimer
    /\ now = Deadline(race)
    /\ race' = [Sent(race) EXCEPT !.rejectTimer = FALSE]
    /\ UNCHANGED <<now, ticks, rateMap, strikeMap, win, env, data, pc, cur, resp, twin,
                   rank, hist, cls, parked>>

\* the timer that rejects fires after the call has settled: the promise it
\* rejects lost the race, nothing is sent
LateTimer ==
    /\ race.call = "settled"
    /\ race.rejectTimer
    /\ now = Deadline(race)
    /\ race' = [race EXCEPT !.rejectTimer = FALSE]
    /\ UNCHANGED <<now, ticks, rateMap, strikeMap, win, env, data, pc, cur, resp, twin,
                   rank, hist, cls, parked>>

\* the client goes away while its request is in flight: the handler listens
\* to no event of the request
Disconnect ==
    /\ pc # "idle"
    /\ race.connected
    /\ race' = [race EXCEPT !.connected = FALSE, !.goneDuring = race.call]
    /\ UNCHANGED <<now, ticks, rateMap, strikeMap, win, env, data, pc, cur, resp, twin,
                   rank, hist, cls, parked>>

NextRace ==
    \/ RaceTick
    \/ \E req \in RaceRequests : Receive(req, MaxRaceCount)
    \/ DbPhase
    \/ StartCall
    \/ CallSettles
    \/ TimerFires
    \/ LateTimer
    \/ Disconnect

\* the clock and the timers of the event loop are not held back
SpecRace ==
    /\ InitRace
    /\ [][NextRace]_vars
    /\ WF_vars(RaceTick)
    /\ WF_vars(StartCall)
    /\ WF_vars(TimerFires)

\* the generator call of the request in flight has not settled
CallPending == pc = "gen" /\ race.call = "pending"

\* the timer won the race
TimerWon == Handled /\ race.call = "aborted"

\* C31: every request that reaches the generator call gets its response within
\* 15 seconds of the call even if the call never settles, and when the timer
\* wins the race the response is a retryable error without any output of the
\* generator.
C31_BoundedLatency ==
    /\ [](CallPending => now - race.genAt <= 15000)
    /\ []((Handled /\ race.call \in {"settled", "aborted"}) =>
              race.sentAt - race.genAt <= 15000)
    /\ [](TimerWon =>
              /\ resp.status = 500
              /\ Includes(toLowerCase(resp.body.answer), "try again")
              /\ resp.body.skills_confirmed = <<>>
              /\ resp.body.evidence_links = <<>>
              /\ resp.body.trace = <<>>)
    /\ (CallPending ~> Handled)

\* the call never settled and the request was answered at the deadline
C31_Witness ==
    /\ TimerWon
    /\ resp.kind = "timeout"
    /\ race.sentAt = race.genAt + 15000
    /\ race.sent = 1

\* the client went away while the generator call was pending, and the call is
\* over
GoneWhilePending == race.goneDuring = "pending" /\ race.call # "pending"

\* C32: if the client disconnects while the generator call is in flight, the
\* call is aborted through the abort controller before the 15-second timer
\* fires.
C32_Cancellation ==
    GoneWhilePending =>
        /\ race.call = "aborted"
        /\ race.sentAt < race.genAt + 15000

\* the text of the generator is no JSON object: it does not parse (the empty
\* text included) or it is the JSON null
Malformed(out) == out.kind \in {"unparseable", "null"}

FormattingTrouble == "I had trouble formatting the response. Please try again."

\* the guard entries of the client are those the request left on arrival
GuardStateKept ==
    /\ rateMap[resp.req.client] = resp.post.rate
    /\ strikeMap[resp.req.client] = resp.post.strike

\* C33: for every text of the generator that is not a JSON object of the
\* expected shape (text that does not parse, the empty text, valid JSON that
\* is no object such as null) the handler returns the 'formatting trouble'
\* message with HTTP 200, never an HTTP 500, and changes no guard state.
C33_MalformedOutput ==
    (Handled /\ "generator" \in resp.calls /\ Malformed(race.out)) =>
        /\ resp.status = 200
        /\ resp.body.answer = FormattingTrouble
        /\ GuardStateKept

\* the answer of the response begins with the injected prefix
Prefixed ==
    /\ Len(resp.body.answer) >= Len(UncertaintyPrefix)
    /\ SubSeq(resp.body.answer, 1, Len(UncertaintyPrefix)) = UncertaintyPrefix

\* the text the generator gave as its answer (the stand-in text when it gave
\* no string)
GeneratedText ==
    IF race.out.answerIsString THEN race.out.answer
    ELSE "I couldn't generate a proper answer."

GeneratedResponse == Handled /\ resp.kind = "generated"

\* C34: in a generated response the answer begins with the injected
\* uncertainty prefix exactly when the missing_info returned to the client is
\* not empty and the generated text holds none of the hedge markers 'cannot
\* confirm', 'not certain', 'not sure'.
C34_UncertaintyPrefix ==
    GeneratedResponse =>
        (Prefixed <=> (Len(resp.body.missing_info) > 0 /\ ~HasMarker(GeneratedText)))

\* the responses of the handler that report a failure or refuse the request
FailureKinds ==
    {"missing", "toolong", "method", "rate", "nokey", "nodata", "dbdown",
     "servererror", "timeout", "locked", "strike", "warn", "unparsed"}

\* the answer points to the contact section of the site
PointsToContact == Includes(toLowerCase(resp.body.answer), "contact")

\* C35: every failure or refusal response the user sees (400, 405, 429, 500,
\* lockout, strike and warn rejections, formatting trouble, generator
\* timeout) includes in its answer a pointer to a human contact mechanism.
C35_ContactPointer ==
    (Handled /\ resp.kind \in FailureKinds) => PointsToContact

----------------------------------------------------------------------------
(* Requests of one client interleaved at the awaits of the handler: while  *)
(* the handler of one request waits for the store, the event loop runs the *)
(* handlers of others.                                                     *)

MaxParked == 1

MaxInterleaveCount == 4

InterleaveRequests ==
    {Request(HeadersA, "POST", b) :
        b \in {Question("i hate this"), Question(WeatherQuestion),
               PageQuestion("what page am i on", "/dashboards/sales-overview")}}

InitInterleave ==
    /\ now = 0
    /\ ticks = 0
    /\ rateMap = [c \in Clients |-> NoEntry]
    /\ strikeMap = [c \in Clients |-> NoEntry]
    /\ win = [c \in Clients |-> NoWindow]
    /\ env = ClientsEnv
    /\ data = 1
    /\ pc = "idle"
    /\ cur = NoCur
    /\ resp = NoResp
    /\ twin = NoTwin
    /\ rank = NoRank
    /\ hist = NoHist
    /\ cls = NoCls
    /\ race = NoRace
    /\ parked = {}

\* the handler of the request in flight stays at its await and the event loop
\* turns to other work
Suspend ==
    /\ pc # "idle"
    /\ Cardinality(parked) < MaxParked
    /\ parked' = parked \cup {[pc |-> pc, cur |-> cur, race |-> race]}
    /\ pc' = "idle"
    /\ cur' = NoCur
    /\ race' = NoRace
    /\ UNCHANGED <<now, ticks, rateMap, strikeMap, win, env, data, resp, twin, rank,
                   hist, cls>>

\* the awaited promise of a waiting handler is settled and the handler goes on
Resume ==
    /\ pc = "idle"
    /\ \E w \in parked :
          /\ pc' = w.pc
          /\ cur' = w.cur
          /\ race' = w.race
          /\ parked' = parked \ {w}
    /\ UNCHANGED <<now, ticks, rateMap, strikeMap, win, env, data, resp, twin, rank,
                   hist, cls>>

NextInterleave ==
    \/ Tick
    \/ \E req \in InterleaveRequests : Receive(req, MaxInterleaveCount)
    \/ PagePhase
    \/ Suspend
    \/ Resume

SpecInterleave == InitInterleave /\ [][NextInterleave]_vars

\* the strike entry of a client: a count in 0..3, locked exactly at 3
StrikeEntryOk(entry) ==
    \/ entry = NoEntry
    \/ /\ entry.strikes \in 0..3
       /\ (entry.lockedUntil # 0 <=> entry.strikes = 3)

\* the strike count of the client grows in this step
StrikeAdded(c) ==
    /\ strikeMap'[c] # NoEntry
    /\ strikeMap'[c].strikes > (IF strikeMap[c] = NoEntry THEN 0 ELSE strikeMap[c].strikes)

\* the lockout of the client has not run out
LockedNow(c) == strikeMap[c] # NoEntry /\ StillLocked(strikeMap[c], now)

\* C36: in every reachable state, under every interleaving of concurrent
\* requests of one client at the awaits of the handler, the strike count of
\* every client is in 0..3 and a lockout expiry is recorded exactly when the
\* count is 3; no strike is ever added to a client whose lockout has not
\* expired.
C36_StrikeState ==
    /\ [](\A c \in Clients : StrikeEntryOk(strikeMap[c]))
    /\ [][\A c \in Clients : StrikeAdded(c) => ~LockedNow(c)]_vars

\* the client got its third strike while the handler of another of its
\* requests waited, and that handler has gone on since
C36_Witness ==
    /\ strikeMap[getClientIp(HeadersA)] # NoEntry
    /\ strikeMap[getClientIp(HeadersA)].strikes = 3
    /\ Handled
    /\ resp.kind = "page"
    /\ resp.post.strike = NoEntry

\* the last request was a POST of a client that was not locked out: it got
\* past the lockout check
PastLockout == PostHandled /\ ~PreLocked

\* the rate entry of every client counts the requests of its window that got
\* past the lockout check
CountsThePasses ==
    \A c \in Clients :
        IF win[c].n = 0 THEN rateMap[c] = NoEntry
        ELSE /\ rateMap[c] # NoEntry
             /\ rateMap[c].count = win[c].n
             /\ rateMap[c].resetAt = win[c].start + RATE_WINDOW_MS

\* C37: the rate counter is incremented by exactly the POST requests that get
\* past the lockout check, those then rejected with 429, 400 or 500 (no API
\* key) included; OPTIONS, non-POST and lockout-answered requests leave the
\* rate counter and the strike state as they were.
C37_RateAccounting ==
    /\ CountsThePasses
    /\ Handled =>
          IF PastLockout
          THEN /\ resp.post.rate # NoEntry
               /\ resp.post.rate.count =
                      IF resp.pre.rate = NoEntry \/ WindowOver(resp.pre.rate, resp.at)
                      THEN 1 ELSE resp.pre.rate.count + 1
          ELSE /\ resp.post.rate = resp.pre.rate
               /\ resp.post.strike = resp.pre.strike

\* a request answered 429 was counted
C37_Witness ==
    /\ PastLockout
    /\ resp.status = 429
    /\ resp.pre.rate.count = RATE_MAX + 1
    /\ rateMap[resp.req.client].count = RATE_MAX + 2

\* the strike count of the client in the map
StrikeCount(sm, c) == IF sm[c] = NoEntry THEN 0 ELSE sm[c].strikes

\* the lockout of the client has run out
LockoutOver(c) ==
    /\ strikeMap[c] # NoEntry
    /\ strikeMap[c].lockedUntil # 0
    /\ now >= strikeMap[c].lockedUntil

\* C38: the strike count of a client never decreases until a lockout has run
\* out: allowed messages, warn rejections, rate-window resets and elapsed
\* time do not reset it, and every strike-severity violation adds one to the
\* count that is left, so three of them lock the client even when they are
\* not consecutive.
C38_NoDecay ==
    /\ [][\A c \in Clients :
              StrikeCount(strikeMap', c) < StrikeCount(strikeMap, c) => LockoutOver(c)]_vars
    /\ [][(resp' # resp /\ resp'.kind = "strike") =>
              /\ StrikeCount(strikeMap', resp'.req.client)
                     = StrikesAt(strikeMap[resp'.req.client], now) + 1
              /\ (StrikeCount(strikeMap', resp'.req.client) = 3
                     => resp'.body.meta.locked_until # 0)]_vars

\* the third strike, in a later rate window than the second and after another
\* request that was allowed or warned
C38_Witness ==
    /\ Handled
    /\ resp.kind = "strike"
    /\ resp.pre.strike # NoEntry
    /\ resp.pre.strike.strikes = 2
    /\ resp.post.strike.strikes = 3
    /\ resp.at > resp.pre.strike.lastStrikeAt + RATE_WINDOW_MS
    /\ resp.pre.rate.count > 2

\* the projects whose profiles were fetched for the last request
FetchedProjects == resp.info.finalProjectIds

MAX_EVIDENCE_PROJECTS == 3

\* C39: on every path of the retrieval (skill-first, the trigram search that
\* fetches up to five candidates, the projects derived from matched skills)
\* the final set of projects whose profiles are fetched and handed to the
\* generator holds three projects at most.
C39_EvidenceBound ==
    Handled =>
        /\ Len(FetchedProjects) <= MAX_EVIDENCE_PROJECTS
        /\ Len(resp.body.meta.matched_project_slugs) <= MAX_EVIDENCE_PROJECTS

\* the trigram search returned five projects, three were fetched and the
\* generator answered
C39_Witness ==
    /\ Handled
    /\ resp.kind = "generated"
    /\ Len(resp.info.trigram.projects) = 5
    /\ Len(FetchedProjects) = 3

\* the store knows more than three projects for the matched skills and three
\* were derived
C39_DerivedWitness ==
    /\ Handled
    /\ resp.info.derivedSearched
    /\ Len(resp.info.matchedSkills) = 2
    /\ Len(FetchedProjects) = 3

====
